---- MODULE Spec2Model ----
(***************************************************************************)
(* The chunked voxel world of src/src/ItemEntity.ts (class World): the RAM *)
(* cache, the dirty / known-keys / in-flight sets, the mesh handles, the   *)
(* durable store behind worldDB, and the asynchronous calls loadWorld,     *)
(* saveWorld and deleteWorld with every suspension point as a step.        *)
(*                                                                         *)
(* Volumes are observed at the cells of ProbeIndices.  All of them lie at  *)
(* y <= 1, where placeTree never writes (a trunk starts at height + 1 >= 2)*)
(* so generateChunk is a function of (seed, cx, cz) on them.               *)
(***************************************************************************)
EXTENDS Integers, Sequences, FiniteSets, TLC

(* ------------------------------ constants ------------------------------ *)

\* Block IDs (BLOCK)
AIR == 0
GRASS == 1
DIRT == 2
STONE == 3
BEDROCK == 4
WOOD == 5
LEAVES == 6

chunkSize == 16
TERRAIN_HEIGHT == 8
OFFSET == 4

\* Uint8Array element width
ByteRange == 256

\* checkMemory: the cap on cached volumes and the batch it evicts
MemoryCap == 500
MemoryBatch == 50

\* update: the radius on mobile and on desktop
Radii == {2, 3}

(* ------------------------------- bounds -------------------------------- *)

\* update's radius (2 or 3 in the program), scaled down
Radius == 0
\* checkMemory's cap on cached volumes is 500 in the program, 402 more than the
\* 49 chunks of the largest active grid and the 49 others of a batch; scaled down
CacheSlack == 0
\* checkMemory's batch of evicted volumes (50 in the program), scaled down
EvictBatch == 1
\* saveWorld calls that may be suspended at the same time
MaxSaves == 1
\* largest seed drawn by Math.random (2147483646 in the program)
MaxSeed == 1
\* store requests that may be outstanding at the same time
MaxPending == 2
\* slots of the inventory (36 in the program)
NumSlots == 2
\* items of one id that the viewer collects
MaxCount == 2

Seeds == 0..MaxSeed

\* item ids, one more than there are slots; 0 is the id of an empty slot
ItemIds == 1..(NumSlots + 1)
\* { id: 0, count: 0 }, an empty slot; it stands for null in draggedItem as well
NoItem == [id |-> 0, count |-> 0]

\* viewer positions handed to update: (x, z) in world units
Positions == {<<-8, 8>>, <<8, 8>>}

\* coordinates and types handed to setBlock, getBlock and hasBlock
SetXs == {-13}
SetYs == {-1, 1, chunkSize}
SetZs == {5}
SetTypes == {AIR, WOOD}

\* x coordinates handed to getBlock and hasBlock: one per chunk of Positions
GetXs == {-13, 3}

\* playerData handed to saveWorld: position and inventory, opaque
PlayerDatas == {"pd1", "pd2"}

(* ------------------------------- helpers ------------------------------- *)

\* Math.floor(v / chunkSize)
ChunkCoord(v) == v \div chunkSize

\* `${cx},${cz}` ; checkMemory reads the two numbers back with split(',')
ChunkKey(cx, cz) == <<cx, cz>>
KeyX(key) == key[1]
KeyZ(key) == key[2]

getBlockIndex(x, y, z) == x + y * chunkSize + z * chunkSize * chunkSize

IndexX(i) == i % chunkSize
IndexY(i) == (i \div chunkSize) % chunkSize
IndexZ(i) == i \div (chunkSize * chunkSize)

\* the cells of a volume the model observes
ProbeIndices ==
  { getBlockIndex(x - ChunkCoord(x) * chunkSize, y, z - ChunkCoord(z) * chunkSize) :
      <<x, y, z>> \in { c \in SetXs \X SetYs \X SetZs : c[2] >= 0 /\ c[2] < chunkSize } }

\* Map<string, T> with insertion order: a sequence of entries
MapKeys(m) == { m[i].key : i \in DOMAIN m }
MapHas(m, k) == k \in MapKeys(m)
MapGet(m, k) == m[CHOOSE i \in DOMAIN m : m[i].key = k].val
MapSet(m, k, v) ==
  IF MapHas(m, k)
  THEN [i \in DOMAIN m |-> IF m[i].key = k THEN [key |-> k, val |-> v] ELSE m[i]]
  ELSE Append(m, [key |-> k, val |-> v])
MapDelete(m, k) == SelectSeq(m, LAMBDA e : e.key # k)

\* a function with one key less / one key more
Without(f, k) == [j \in DOMAIN f \ {k} |-> f[j]]
With(f, k, v) == [j \in DOMAIN f \cup {k} |-> IF j = k THEN v ELSE f[j]]

(* ------------------------------- terrain ------------------------------- *)

\* Math.floor(noise2D(worldX / TERRAIN_SCALE, worldZ / TERRAIN_SCALE) * TERRAIN_HEIGHT):
\* simplex noise is a fixed function of the seed and the coordinates with
\* values in [-1, 1]; any such function serves.
NoiseStep(s, worldX, worldZ) ==
  ((s * 7 + worldX * 3 + worldZ * 5) % (2 * TERRAIN_HEIGHT + 1)) - TERRAIN_HEIGHT

TerrainHeight(s, worldX, worldZ) ==
  LET h == NoiseStep(s, worldX, worldZ) + OFFSET
  IN  IF h < 1 THEN 1 ELSE IF h >= chunkSize THEN chunkSize - 1 ELSE h

\* the height pass of generateChunk for one cell
ColumnType(height, y) ==
  IF y > height THEN AIR
  ELSE IF y = 0 THEN BEDROCK
  ELSE IF y = height THEN GRASS
  ELSE IF y >= height - 3 THEN DIRT
  ELSE STONE

\* the Uint8Array generateChunk fills, at the observed cells
GenerateData(s, cx, cz) ==
  [i \in ProbeIndices |->
     ColumnType(TerrainHeight(s, cx * chunkSize + IndexX(i), cz * chunkSize + IndexZ(i)),
                IndexY(i))]

(* -------------------------------- state -------------------------------- *)

VARIABLES
  chunks,           \* Map key -> mesh handle
  scene,            \* the chunk meshes in the THREE.Scene: mesh -> times it is there
  chunksData,       \* Map key -> Uint8Array, in insertion order
  dirtyChunks,      \* Set of keys
  knownChunkKeys,   \* Set of keys
  loadingChunks,    \* Set of keys
  seed,
  db,               \* the durable store: [chunks: key -> bytes, player: meta record]
  pending,          \* store requests issued and not yet completed, in issue order
  calls,            \* suspended loadWorld / saveWorld / deleteWorld calls
  inventorySlots,   \* main.ts: the slots of the inventory, each an {id, count}
  draggedItem,      \* main.ts: the stack on the cursor, NoItem for null
  isInventoryOpen,  \* main.ts
  event,            \* the operation that made the last step
  evicted,          \* history: key -> volume and dirty flag at its eviction
  saving,           \* history: per saveWorld call, the volumes it covers and those it wrote
  owed,             \* history: key -> its volume since the last setBlock that wrote it
  expect,           \* history: key -> volume a resolved saveWorld answers for
  indexed,          \* history: this instance's known keys were read from the store
  failed            \* history: the keys whose fetch failed and that are not cached since

\* the inventory of main.ts; no method of World reads or writes it
ui == <<inventorySlots, draggedItem, isInventoryOpen>>

\* the fields of World and the store
world == <<chunks, scene, chunksData, dirtyChunks, knownChunkKeys, loadingChunks, seed,
           db, pending, calls>>

prog == <<chunks, scene, chunksData, dirtyChunks, knownChunkKeys, loadingChunks, seed,
          db, pending, calls, ui, event>>
vars == <<chunks, scene, chunksData, dirtyChunks, knownChunkKeys, loadingChunks, seed,
          db, pending, calls, ui, event, evicted, saving, owed, expect, indexed, failed>>

NoMeta == [present |-> FALSE, data |-> "", seed |-> 0]
NoCont == [kind |-> "none", id |-> 0, key |-> <<0, 0>>]
MetaKey == <<0, 0>>

\* the in-memory fields of World as one value, for the synchronous helpers
World ==
  [chunks |-> chunks, scene |-> scene, chunksData |-> chunksData,
   dirtyChunks |-> dirtyChunks,
   knownChunkKeys |-> knownChunkKeys, loadingChunks |-> loadingChunks,
   seed |-> seed, pending |-> pending]

Apply(w) ==
  /\ chunks' = w.chunks
  /\ scene' = w.scene
  /\ chunksData' = w.chunksData
  /\ dirtyChunks' = w.dirtyChunks
  /\ knownChunkKeys' = w.knownChunkKeys
  /\ loadingChunks' = w.loadingChunks
  /\ seed' = w.seed
  /\ pending' = w.pending

Request(op, ns, key, val, cont) ==
  [op |-> op, ns |-> ns, key |-> key, val |-> val, cont |-> cont]

NoVal == [i \in {} |-> 0]

(* ------------------------- synchronous helpers -------------------------- *)

\* this.scene.add(mesh)
SceneAdd(s, mesh) ==
  IF mesh \in DOMAIN s THEN [s EXCEPT ![mesh] = @ + 1] ELSE With(s, mesh, 1)

\* this.scene.remove(mesh), with the disposal of its geometry and material
SceneRemove(s, mesh) ==
  IF mesh \notin DOMAIN s THEN s
  ELSE IF s[mesh] = 1 THEN Without(s, mesh)
  ELSE [s EXCEPT ![mesh] = @ - 1]

\* the scene once the mesh of key, if it has one, is removed
SceneWithout(w, key) ==
  IF key \in DOMAIN w.chunks THEN SceneRemove(w.scene, w.chunks[key]) ELSE w.scene

\* for (const [key, chunk] of handles) this.scene.remove(chunk.mesh)
RECURSIVE SceneRemoveAll(_, _)
SceneRemoveAll(s, handles) ==
  IF DOMAIN handles = {} THEN s
  ELSE LET k == CHOOSE k \in DOMAIN handles : TRUE
       IN  SceneRemoveAll(SceneRemove(s, handles[k]), Without(handles, k))

\* generateChunkMesh: a new mesh at the chunk's origin whose geometry is computed
\* from the volume alone
generateChunkMesh(data, cx, cz) ==
  [position |-> <<cx * chunkSize, 0, cz * chunkSize>>, from |-> data]

buildChunkMesh(w, cx, cz, data) ==
  LET key == ChunkKey(cx, cz)
  IN  IF key \in DOMAIN w.chunks THEN w
      ELSE LET mesh == generateChunkMesh(data, cx, cz)
           IN  [w EXCEPT !.scene = SceneAdd(w.scene, mesh),
                         !.chunks = With(w.chunks, key, mesh)]

generateChunk(w, cx, cz) ==
  LET key == ChunkKey(cx, cz)
      data == GenerateData(w.seed, cx, cz)
      w1 == [w EXCEPT !.chunksData = MapSet(w.chunksData, key, data),
                      !.dirtyChunks = w.dirtyChunks \cup {key}]
  IN  buildChunkMesh(w1, cx, cz, data)

\* ensureChunk that generates a chunk whether or not its key is known
ensureChunkGenerateKnown(w, cx, cz, key) ==
  IF MapHas(w.chunksData, key)
  THEN buildChunkMesh(w, cx, cz, MapGet(w.chunksData, key))
  ELSE generateChunk(w, cx, cz)

\* ensureChunk that issues the fetch of a known key without recording it as in flight
ensureChunkFetchUntracked(w, cx, cz, key) ==
  IF MapHas(w.chunksData, key)
  THEN buildChunkMesh(w, cx, cz, MapGet(w.chunksData, key))
  ELSE IF key \in w.knownChunkKeys
  THEN IF key \in w.loadingChunks THEN w
       ELSE [w EXCEPT
               !.pending = Append(w.pending,
                  Request("get", "chunks", key, NoVal,
                          [kind |-> "fetch", id |-> 0, key |-> key]))]
  ELSE generateChunk(w, cx, cz)

\* the synchronous part of ensureChunk; the completion of its fetch is FetchDone
ensureChunk(w, cx, cz, key) ==
  IF MapHas(w.chunksData, key)
  THEN buildChunkMesh(w, cx, cz, MapGet(w.chunksData, key))
  ELSE IF key \in w.knownChunkKeys
  THEN IF key \in w.loadingChunks THEN w
       ELSE [w EXCEPT
               !.loadingChunks = w.loadingChunks \cup {key},
               !.pending = Append(w.pending,
                  Request("get", "chunks", key, NoVal,
                          [kind |-> "fetch", id |-> 0, key |-> key]))]
  ELSE generateChunk(w, cx, cz)

\* checkMemory's cap: 500 in the program, where more than 50 of 501 volumes are
\* farther from the viewer than every chunk of the active grid; scaled down so that,
\* for the radii of the model (below 3), a batch is made of chunks outside the grid
CacheCap == (2 * Radius + 1) * (2 * Radius + 1) + (EvictBatch - 1) + CacheSlack

\* the keys of update's grid, in the order of its two loops
GridSide == 2 * Radius + 1
Grid(cx, cz) ==
  [n \in 1..(GridSide * GridSide) |->
     <<cx - Radius + ((n - 1) \div GridSide), cz - Radius + ((n - 1) % GridSide)>>]

RECURSIVE EnsureGrid(_, _)
EnsureGrid(w, grid) ==
  IF grid = <<>> THEN w
  ELSE LET c == Head(grid)
           key == ChunkKey(c[1], c[2])
           w1 == IF key \in DOMAIN w.chunks THEN w ELSE ensureChunk(w, c[1], c[2], key)
       IN  EnsureGrid(w1, Tail(grid))

\* checkMemory that measures the distance from the origin
DistFromOrigin(key, cx, cz) == KeyX(key) * KeyX(key) + KeyZ(key) * KeyZ(key)

\* (ax - cx) ** 2 + (az - cz) ** 2
Dist(key, cx, cz) ==
  (KeyX(key) - cx) * (KeyX(key) - cx) + (KeyZ(key) - cz) * (KeyZ(key) - cz)

\* entries.sort((a, b) => distB - distA): stable, descending distance
RECURSIVE InsertDesc(_, _, _, _)
InsertDesc(sorted, e, cx, cz) ==
  IF sorted = <<>> THEN <<e>>
  ELSE IF Dist(Head(sorted).key, cx, cz) >= Dist(e.key, cx, cz)
  THEN <<Head(sorted)>> \o InsertDesc(Tail(sorted), e, cx, cz)
  ELSE <<e>> \o sorted

RECURSIVE SortDesc(_, _, _)
SortDesc(entries, cx, cz) ==
  IF entries = <<>> THEN <<>>
  ELSE InsertDesc(SortDesc(SubSeq(entries, 1, Len(entries) - 1), cx, cz),
                  entries[Len(entries)], cx, cz)

\* checkMemory's loop body that writes a dirty volume and leaves its flag
EvictOneKeepFlag(w, e) ==
  LET key == e.key
      w1 == IF key \in w.dirtyChunks
            THEN [w EXCEPT
                    !.pending = Append(w.pending,
                       Request("set", "chunks", key, e.val,
                               [kind |-> "evict", id |-> 0, key |-> key]))]
            ELSE w
  IN  [w1 EXCEPT !.chunksData = MapDelete(w1.chunksData, key),
                 !.scene = SceneWithout(w1, key),
                 !.chunks = Without(w1.chunks, key)]

\* one pass of checkMemory's loop body
EvictOne(w, e) ==
  LET key == e.key
      w1 == IF key \in w.dirtyChunks
            THEN [w EXCEPT
                    !.pending = Append(w.pending,
                       Request("set", "chunks", key, e.val,
                               [kind |-> "evict", id |-> 0, key |-> key])),
                    !.dirtyChunks = w.dirtyChunks \ {key}]
            ELSE w
  IN  [w1 EXCEPT !.chunksData = MapDelete(w1.chunksData, key),
                 !.scene = SceneWithout(w1, key),
                 !.chunks = Without(w1.chunks, key)]

RECURSIVE EvictAll(_, _)
EvictAll(w, entries) ==
  IF entries = <<>> THEN w ELSE EvictAll(EvictOne(w, Head(entries)), Tail(entries))

Min(a, b) == IF a < b THEN a ELSE b

\* checkMemory that evicts in insertion order, without the sort by distance
checkMemoryOldest(w, playerPos) ==
  IF Len(w.chunksData) <= CacheCap THEN w
  ELSE EvictAll(w, SubSeq(w.chunksData, 1, Min(EvictBatch, Len(w.chunksData))))

\* checkMemory without its check of the cache size
checkMemoryAnySize(w, playerPos) ==
  LET cx == ChunkCoord(playerPos[1])
      cz == ChunkCoord(playerPos[2])
      entries == SortDesc(w.chunksData, cx, cz)
  IN  EvictAll(w, SubSeq(entries, 1, Min(EvictBatch, Len(entries))))

checkMemory(w, playerPos) ==
  IF Len(w.chunksData) <= CacheCap THEN w
  ELSE LET cx == ChunkCoord(playerPos[1])
           cz == ChunkCoord(playerPos[2])
           entries == SortDesc(w.chunksData, cx, cz)
       IN  EvictAll(w, SubSeq(entries, 1, Min(EvictBatch, Len(entries))))

ActiveChunks(playerPos) ==
  LET grid == Grid(ChunkCoord(playerPos[1]), ChunkCoord(playerPos[2]))
  IN  { ChunkKey(grid[i][1], grid[i][2]) : i \in DOMAIN grid }

\* update(playerPos) up to its memory cleanup: activation, then unload of far visuals
updateGrid(w, playerPos) ==
  LET cx == ChunkCoord(playerPos[1])
      cz == ChunkCoord(playerPos[2])
      activeChunks == ActiveChunks(playerPos)
      w1 == EnsureGrid(w, Grid(cx, cz))
  IN  [w1 EXCEPT
         !.scene = SceneRemoveAll(w1.scene,
                      [k \in DOMAIN w1.chunks \ activeChunks |-> w1.chunks[k]]),
         !.chunks = [k \in DOMAIN w1.chunks \cap activeChunks |-> w1.chunks[k]]]

\* update(playerPos); cleanup says whether Math.random() fell under the threshold
update(w, playerPos, cleanup) ==
  LET w2 == updateGrid(w, playerPos)
  IN  IF cleanup THEN checkMemory(w2, playerPos) ELSE w2

(* -------------------------------- mesher -------------------------------- *)

\* The geometry generateChunkMesh computes.  Here a volume is a whole Uint8Array,
\* given by its cells that are not zero: a cell outside the domain holds AIR.

\* the block types a cell may hold besides AIR
BlockTypes == {GRASS, DIRT, STONE, BEDROCK, WOOD, LEAVES}

Sides == {"top", "bottom", "front", "back", "right", "left"}

\* the neighbour each of the six checks of the loop body looks at
SideOffset(side) ==
  CASE side = "top" -> <<0, 1, 0>>
    [] side = "bottom" -> <<0, -1, 0>>
    [] side = "front" -> <<0, 0, 1>>
    [] side = "back" -> <<0, 0, -1>>
    [] side = "right" -> <<1, 0, 0>>
    [] side = "left" -> <<-1, 0, 0>>

\* data[this.getBlockIndex(x, y, z)]
BlockAt(data, x, y, z) ==
  IF getBlockIndex(x, y, z) \in DOMAIN data THEN data[getBlockIndex(x, y, z)] ELSE AIR

\* the mesher that takes only AIR for transparent
isTransparentAirOnly(t) == t = AIR

isTransparent(t) == t = AIR \/ t = LEAVES

\* the mesher that draws no face at the boundary of the chunk
checkNeighborCulled(data, nx, ny, nz) ==
  IF nx < 0 \/ nx >= chunkSize \/ ny < 0 \/ ny >= chunkSize \/ nz < 0 \/ nz >= chunkSize
  THEN FALSE
  ELSE isTransparent(BlockAt(data, nx, ny, nz))

checkNeighbor(data, nx, ny, nz) ==
  IF nx < 0 \/ nx >= chunkSize \/ ny < 0 \/ ny >= chunkSize \/ nz < 0 \/ nz >= chunkSize
  THEN TRUE
  ELSE isTransparent(BlockAt(data, nx, ny, nz))

\* the faces addFace is called for: <<x, y, z, side>>, one quad each
Quads(data) ==
  { <<IndexX(i), IndexY(i), IndexZ(i), side>> :
      <<i, side>> \in { c \in (DOMAIN data) \X Sides :
                         /\ data[c[1]] # AIR
                         /\ checkNeighbor(data,
                                          IndexX(c[1]) + SideOffset(c[2])[1],
                                          IndexY(c[1]) + SideOffset(c[2])[2],
                                          IndexZ(c[1]) + SideOffset(c[2])[3]) } }

\* positions.length / 3: addFace pushes four vertices
VertCount(data) == 4 * Cardinality(Quads(data))

\* the index build: two triangles, six indices, for every four vertices
IndexCount(data) == 6 * ((VertCount(data) + 3) \div 4)

Geometry(data) ==
  [quads |-> Quads(data), vertices |-> VertCount(data), triangles |-> IndexCount(data) \div 3]

\* cell coordinates of the volumes handed to the mesher: both faces of the chunk
\* and its inside, on every axis
MeshCoords == {0, 8, chunkSize - 1}

\* an empty volume but for one cell, and but for two cells
OneVoxel(x, y, z, t) == getBlockIndex(x, y, z) :> t
TwoVoxels(x, y, z, t, side, u) ==
  (getBlockIndex(x, y, z) :> t) @@
  (getBlockIndex(x + SideOffset(side)[1], y + SideOffset(side)[2], z + SideOffset(side)[3]) :> u)

(* ------------------------------- lookups ------------------------------- *)

isChunkLoaded(x, z) == MapHas(chunksData, ChunkKey(ChunkCoord(x), ChunkCoord(z)))

\* getBlock that takes the world below y = 0 for bedrock
getBlockSolidBelow(x, y, z) ==
  LET cx == ChunkCoord(x)
      cz == ChunkCoord(z)
      key == ChunkKey(cx, cz)
  IN  IF y < 0 THEN BEDROCK
      ELSE IF ~MapHas(chunksData, key) THEN 0
      ELSE IF y >= chunkSize THEN 0
      ELSE MapGet(chunksData, key)[getBlockIndex(x - cx * chunkSize, y, z - cz * chunkSize)]

hasBlock(x, y, z) ==
  LET cx == ChunkCoord(x)
      cz == ChunkCoord(z)
      key == ChunkKey(cx, cz)
  IN  IF ~MapHas(chunksData, key) THEN FALSE
      ELSE IF y < 0 \/ y >= chunkSize THEN FALSE
      ELSE MapGet(chunksData, key)[getBlockIndex(x - cx * chunkSize, y, z - cz * chunkSize)] # AIR

getBlock(x, y, z) ==
  LET cx == ChunkCoord(x)
      cz == ChunkCoord(z)
      key == ChunkKey(cx, cz)
  IN  IF ~MapHas(chunksData, key) THEN 0
      ELSE IF y < 0 \/ y >= chunkSize THEN 0
      ELSE MapGet(chunksData, key)[getBlockIndex(x - cx * chunkSize, y, z - cz * chunkSize)]

\* setBlock without its check of y
setBlockAnyY(w, x, y, z, type) ==
  LET cx == ChunkCoord(x)
      cz == ChunkCoord(z)
      key == ChunkKey(cx, cz)
  IN  IF ~MapHas(w.chunksData, key) THEN w
      ELSE LET index == getBlockIndex(x - cx * chunkSize, y, z - cz * chunkSize)
               old == MapGet(w.chunksData, key)
               data == [i \in DOMAIN old |-> IF i = index THEN type % ByteRange ELSE old[i]]
           IN  [w EXCEPT !.chunksData = MapSet(w.chunksData, key, data),
                         !.dirtyChunks = w.dirtyChunks \cup {key},
                         !.scene = SceneAdd(SceneWithout(w, key),
                                            generateChunkMesh(data, cx, cz)),
                         !.chunks = With(w.chunks, key, generateChunkMesh(data, cx, cz))]

\* setBlock that marks the chunk dirty without rebuilding its mesh
setBlockNoMesh(w, x, y, z, type) ==
  LET cx == ChunkCoord(x)
      cz == ChunkCoord(z)
      key == ChunkKey(cx, cz)
  IN  IF ~MapHas(w.chunksData, key) THEN w
      ELSE IF y < 0 \/ y >= chunkSize THEN w
      ELSE LET index == getBlockIndex(x - cx * chunkSize, y, z - cz * chunkSize)
               old == MapGet(w.chunksData, key)
               data == [old EXCEPT ![index] = type % ByteRange]
           IN  [w EXCEPT !.chunksData = MapSet(w.chunksData, key, data),
                         !.dirtyChunks = w.dirtyChunks \cup {key}]

\* setBlock that leaves the mesh it replaces in the scene
setBlockKeepOldMesh(w, x, y, z, type) ==
  LET cx == ChunkCoord(x)
      cz == ChunkCoord(z)
      key == ChunkKey(cx, cz)
  IN  IF ~MapHas(w.chunksData, key) THEN w
      ELSE IF y < 0 \/ y >= chunkSize THEN w
      ELSE LET index == getBlockIndex(x - cx * chunkSize, y, z - cz * chunkSize)
               old == MapGet(w.chunksData, key)
               data == [old EXCEPT ![index] = type % ByteRange]
           IN  [w EXCEPT !.chunksData = MapSet(w.chunksData, key, data),
                         !.dirtyChunks = w.dirtyChunks \cup {key},
                         !.scene = SceneAdd(w.scene, generateChunkMesh(data, cx, cz)),
                         !.chunks = With(w.chunks, key, generateChunkMesh(data, cx, cz))]

\* setBlock(x, y, z, type) on the in-memory fields
setBlock(w, x, y, z, type) ==
  LET cx == ChunkCoord(x)
      cz == ChunkCoord(z)
      key == ChunkKey(cx, cz)
  IN  IF ~MapHas(w.chunksData, key) THEN w
      ELSE IF y < 0 \/ y >= chunkSize THEN w
      ELSE LET index == getBlockIndex(x - cx * chunkSize, y, z - cz * chunkSize)
               old == MapGet(w.chunksData, key)
               data == [old EXCEPT ![index] = type % ByteRange]
           IN  [w EXCEPT !.chunksData = MapSet(w.chunksData, key, data),
                         !.dirtyChunks = w.dirtyChunks \cup {key},
                         !.scene = SceneAdd(SceneWithout(w, key),
                                            generateChunkMesh(data, cx, cz)),
                         !.chunks = With(w.chunks, key, generateChunkMesh(data, cx, cz))]

(* --------------------------- the durable store -------------------------- *)

\* worldDB (./DB): two namespaces, requests completing asynchronously.  A request
\* completes after every earlier request it conflicts with: two requests conflict
\* when one of them writes and they touch the same record (clear touches all).
IsWrite(r) == r.op \in {"set", "clear"}

SameRecord(a, b) ==
  \/ a.op = "clear" \/ b.op = "clear"
  \/ /\ a.ns = b.ns
     /\ (a.op = "keys" \/ b.op = "keys" \/ a.key = b.key)

Conflict(a, b) ==
  /\ a.op # "init" /\ b.op # "init"
  /\ IsWrite(a) \/ IsWrite(b)
  /\ SameRecord(a, b)

CanComplete(q, j) == \A i \in 1..(j - 1) : ~Conflict(q[i], q[j])

RemoveAt(q, j) == SubSeq(q, 1, j - 1) \o SubSeq(q, j + 1, Len(q))

EmptyDb == [chunks |-> NoVal, player |-> NoMeta]

\* what a completed request leaves in the store
StoreEffect(d, r, ok) ==
  IF ~ok THEN d
  ELSE IF r.op = "set" /\ r.ns = "chunks" THEN [d EXCEPT !.chunks = With(d.chunks, r.key, r.val)]
  ELSE IF r.op = "set" /\ r.ns = "player" THEN [d EXCEPT !.player = r.val]
  ELSE IF r.op = "clear" THEN EmptyDb
  ELSE d

\* drop the continuations of a settled call or of a discarded instance
Detach(q, id) ==
  [j \in DOMAIN q |->
     IF q[j].cont.kind = "call" /\ q[j].cont.id = id THEN [q[j] EXCEPT !.cont = NoCont] ELSE q[j]]

DetachAll(q) == [j \in DOMAIN q |-> [q[j] EXCEPT !.cont = NoCont]]

(* ----------------------------- async calls ------------------------------ *)

LifeId == 0
SaveIds == 1..MaxSaves
CallIds == {LifeId} \cup SaveIds

Idle == [op |-> "idle", pc |-> "", data |-> "", left |-> 0, meta |-> NoMeta]

CallCont(id) == [kind |-> "call", id |-> id, key |-> MetaKey]

\* a sequence of the elements of a set of keys
RECURSIVE SetToSeq(_)
SetToSeq(S) ==
  IF S = {} THEN <<>>
  ELSE LET k == CHOOSE k \in S : \A o \in S : k[1] < o[1] \/ (k[1] = o[1] /\ k[2] <= o[2])
       IN  <<k>> \o SetToSeq(S \ {k})

(* ------------------------------ generator ------------------------------- *)

\* The whole Uint8Array generateChunk fills, trees included.  Math.random() is an
\* input: rnd.trees are the columns where it falls under 0.01 when asked,
\* rnd.trunk is Math.floor(Math.random() * 2) + 4, and rnd.skip says whether it
\* falls under 0.4 at the corners of the canopy.

VolumeIndices == 0..(chunkSize * chunkSize * chunkSize - 1)

\* 1. Generate Terrain
HeightPass(s, cx, cz) ==
  [i \in VolumeIndices |->
     ColumnType(TerrainHeight(s, cx * chunkSize + IndexX(i), cz * chunkSize + IndexZ(i)),
                IndexY(i))]

Abs(v) == IF v < 0 THEN -v ELSE v

\* the cells the canopy loops of placeTree write, if they hold no trunk
InCanopy(x, y, z, startX, startY, startZ, trunkHeight, skip) ==
  LET dy == y - (startY + trunkHeight - 1)
      radius == IF dy = 2 THEN 1 ELSE 2
      dx == x - startX
      dz == z - startZ
  IN  /\ y >= startY + trunkHeight - 2
      /\ y <= startY + trunkHeight + 1
      /\ Abs(dx) <= radius
      /\ Abs(dz) <= radius
      /\ ~(Abs(dx) = radius /\ Abs(dz) = radius /\ skip)

placeTree(data, startX, startY, startZ, trunkHeight, skip) ==
  [i \in DOMAIN data |->
     IF IndexX(i) = startX /\ IndexZ(i) = startZ
        /\ IndexY(i) >= startY /\ IndexY(i) < startY + trunkHeight
     THEN WOOD
     ELSE IF data[i] # WOOD
             /\ InCanopy(IndexX(i), IndexY(i), IndexZ(i), startX, startY, startZ,
                         trunkHeight, skip)
     THEN LEAVES
     ELSE data[i]]

\* Find surface height: the topmost cell of the column that is not AIR, or -1
SurfaceOf(data, x, z) ==
  LET ys == { y \in 0..(chunkSize - 1) : data[getBlockIndex(x, y, z)] # AIR }
  IN  IF ys = {} THEN -1 ELSE CHOOSE y \in ys : \A o \in ys : o <= y

\* the vegetation pass that roots a tree in the surface block
RECURSIVE TreePassAtSurface(_, _, _)
TreePassAtSurface(data, columns, rnd) ==
  IF columns = <<>> THEN data
  ELSE LET x == Head(columns)[1]
           z == Head(columns)[2]
           height == SurfaceOf(data, x, z)
       IN  IF x < 2 \/ x >= chunkSize - 2 \/ z < 2 \/ z >= chunkSize - 2
           THEN TreePassAtSurface(data, Tail(columns), rnd)
           ELSE IF height > 0 /\ data[getBlockIndex(x, height, z)] = GRASS
           THEN TreePassAtSurface(placeTree(data, x, height, z, rnd.trunk, rnd.skip),
                                  Tail(columns), rnd)
           ELSE TreePassAtSurface(data, Tail(columns), rnd)

\* 2. Generate Trees: the columns in the order of the two loops
RECURSIVE TreePass(_, _, _)
TreePass(data, columns, rnd) ==
  IF columns = <<>> THEN data
  ELSE LET x == Head(columns)[1]
           z == Head(columns)[2]
           height == SurfaceOf(data, x, z)
       IN  IF x < 2 \/ x >= chunkSize - 2 \/ z < 2 \/ z >= chunkSize - 2
           THEN TreePass(data, Tail(columns), rnd)
           ELSE IF height > 0 /\ data[getBlockIndex(x, height, z)] = GRASS
           THEN TreePass(placeTree(data, x, height + 1, z, rnd.trunk, rnd.skip),
                         Tail(columns), rnd)
           ELSE TreePass(data, Tail(columns), rnd)

GenerateVolume(s, cx, cz, rnd) == TreePass(HeightPass(s, cx, cz), SetToSeq(rnd.trees), rnd)

\* chunks handed to the generator, and the columns where a tree may be drawn: two
\* neighbours, one apart, and one too near the edge of the chunk
GenChunks == {<<0, 0>>, <<-1, 0>>}
TreeColumns == {<<8, 8>>, <<9, 8>>, <<3, 12>>, <<1, 5>>}
Randoms == [trees : SUBSET TreeColumns, trunk : {4, 5}, skip : BOOLEAN]

(* -------------------------------- actions ------------------------------- *)

Init ==
  /\ chunks = NoVal
  /\ scene = NoVal
  /\ chunksData = <<>>
  /\ dirtyChunks = {}
  /\ knownChunkKeys = {}
  /\ loadingChunks = {}
  /\ seed \in Seeds
  /\ db = EmptyDb
  /\ pending = <<>>
  /\ calls = [i \in CallIds |-> Idle]
  /\ inventorySlots = [i \in 1..NumSlots |-> NoItem]
  /\ draggedItem = NoItem
  /\ isInventoryOpen = FALSE
  /\ event = [op |-> "new", args |-> <<>>]
  /\ evicted = NoVal
  /\ saving = [i \in SaveIds |-> [covers |-> NoVal, wrote |-> NoVal, kept |-> {}, alone |-> TRUE,
                               dirty0 |-> {}, held |-> {}]]
  /\ owed = NoVal
  /\ expect = NoVal
  /\ indexed = TRUE
  /\ failed = {}

\* world.update(playerPos), one tick of animate
Update(playerPos, cleanup) ==
  LET w == update(World, playerPos, cleanup)
  IN  /\ Apply(w)
      /\ UNCHANGED <<db, calls>>

\* world.setBlock(x, y, z, type)
SetBlock(x, y, z, type) ==
  /\ Apply(setBlock(World, x, y, z, type))
  /\ UNCHANGED <<db, calls>>

\* new World(scene) over the same store: the fields of a fresh instance; what the
\* discarded instance left outstanding still completes, with nobody waiting
NewWorld(s) ==
  /\ chunks' = NoVal
  /\ scene' = NoVal
  /\ chunksData' = <<>>
  /\ dirtyChunks' = {}
  /\ knownChunkKeys' = {}
  /\ loadingChunks' = {}
  /\ seed' = s
  /\ pending' = DetachAll(pending)
  /\ calls' = [i \in CallIds |-> Idle]
  /\ UNCHANGED db

(* loadWorld *)

LoadWorld ==
  /\ calls[LifeId].op = "idle"
  /\ pending' = Append(pending, Request("init", "", MetaKey, NoVal, CallCont(LifeId)))
  /\ calls' = [calls EXCEPT ![LifeId] = [Idle EXCEPT !.op = "load", !.pc = "init"]]
  /\ UNCHANGED <<chunks, scene, chunksData, dirtyChunks, knownChunkKeys, loadingChunks, seed, db>>

\* the request at j is the one the call id waits for at pc
Awaited(j, id, op, pc) ==
  /\ j \in DOMAIN pending
  /\ CanComplete(pending, j)
  /\ pending[j].cont = CallCont(id)
  /\ calls[id].op = op
  /\ calls[id].pc = pc

\* a store failure rejects the suspended call
Reject(j, id) ==
  /\ pending' = Detach(RemoveAt(pending, j), id)
  /\ calls' = [calls EXCEPT ![id] = Idle]
  /\ UNCHANGED <<chunks, scene, chunksData, dirtyChunks, knownChunkKeys, loadingChunks, seed, db>>

LoadInitDone(j, ok) ==
  /\ Awaited(j, LifeId, "load", "init")
  /\ IF ok
     THEN /\ pending' = Append(RemoveAt(pending, j),
                               Request("get", "player", MetaKey, NoVal, CallCont(LifeId)))
          /\ calls' = [calls EXCEPT ![LifeId].pc = "meta"]
          /\ UNCHANGED <<chunks, scene, chunksData, dirtyChunks, knownChunkKeys, loadingChunks,
                         seed, db>>
     ELSE Reject(j, LifeId)

LoadMetaDone(j, ok) ==
  /\ Awaited(j, LifeId, "load", "meta")
  /\ IF ok
     THEN /\ pending' = Append(RemoveAt(pending, j),
                               Request("keys", "chunks", MetaKey, NoVal, CallCont(LifeId)))
          /\ calls' = [calls EXCEPT ![LifeId].pc = "keys", ![LifeId].meta = db.player]
          /\ UNCHANGED <<chunks, scene, chunksData, dirtyChunks, knownChunkKeys, loadingChunks,
                         seed, db>>
     ELSE Reject(j, LifeId)

\* what loadWorld returns for the metadata it read: the stored player data, or
\* the empty object
LoadResult(meta) == IF meta.present THEN meta.data ELSE ""

\* loadWorld that indexes the keys and leaves the seed of the instance
LoadKeysDoneKeepSeed(j, ok) ==
  /\ Awaited(j, LifeId, "load", "keys")
  /\ IF ok
     THEN /\ pending' = RemoveAt(pending, j)
          /\ knownChunkKeys' = knownChunkKeys \cup DOMAIN db.chunks
          /\ calls' = [calls EXCEPT ![LifeId] = Idle]
          /\ UNCHANGED <<chunks, scene, chunksData, dirtyChunks, loadingChunks, seed, db>>
     ELSE Reject(j, LifeId)

LoadKeysDone(j, ok) ==
  /\ Awaited(j, LifeId, "load", "keys")
  /\ IF ok
     THEN LET meta == calls[LifeId].meta
          IN  /\ pending' = RemoveAt(pending, j)
              /\ knownChunkKeys' = knownChunkKeys \cup DOMAIN db.chunks
              /\ seed' = IF meta.present THEN meta.seed ELSE seed
              /\ calls' = [calls EXCEPT ![LifeId] = Idle]
              /\ UNCHANGED <<chunks, scene, chunksData, dirtyChunks, loadingChunks, db>>
     ELSE Reject(j, LifeId)

(* saveWorld *)

SaveWorld(id, playerData) ==
  /\ id \in SaveIds
  /\ calls[id].op = "idle"
  /\ \A i \in SaveIds : i < id => calls[i].op # "idle"
  /\ pending' = Append(pending,
        Request("set", "player", MetaKey,
                [present |-> TRUE, data |-> playerData, seed |-> seed], CallCont(id)))
  /\ calls' = [calls EXCEPT ![id] = [Idle EXCEPT !.op = "save", !.pc = "meta",
                                                 !.data = playerData]]
  /\ UNCHANGED <<chunks, scene, chunksData, dirtyChunks, knownChunkKeys, loadingChunks, seed, db>>

\* the dirty keys saveWorld's loop finds a volume for, and the writes it pushes
SaveKeys == SetToSeq({k \in dirtyChunks : MapHas(chunksData, k)})

SaveWrites(id) ==
  [n \in DOMAIN SaveKeys |->
     Request("set", "chunks", SaveKeys[n], MapGet(chunksData, SaveKeys[n]), CallCont(id))]

\* the continuation of saveWorld after its last await: dirtyChunks.clear()
SaveResolve(id) ==
  /\ dirtyChunks' = {}
  /\ calls' = [calls EXCEPT ![id] = Idle]

\* saveWorld without knownChunkKeys.add(key)
SaveMetaDoneNoIndex(j, id, ok) ==
  /\ id \in SaveIds
  /\ Awaited(j, id, "save", "meta")
  /\ IF ok
     THEN /\ pending' = RemoveAt(pending, j) \o SaveWrites(id)
          /\ db' = StoreEffect(db, pending[j], TRUE)
          /\ UNCHANGED knownChunkKeys
          /\ IF SaveKeys = <<>>
             THEN SaveResolve(id)
             ELSE /\ calls' = [calls EXCEPT ![id].pc = "chunks", ![id].left = Len(SaveKeys)]
                  /\ UNCHANGED dirtyChunks
          /\ UNCHANGED <<chunks, scene, chunksData, loadingChunks, seed>>
     ELSE Reject(j, id)

SaveMetaDone(j, id, ok) ==
  /\ id \in SaveIds
  /\ Awaited(j, id, "save", "meta")
  /\ IF ok
     THEN /\ pending' = RemoveAt(pending, j) \o SaveWrites(id)
          /\ db' = StoreEffect(db, pending[j], TRUE)
          /\ knownChunkKeys' = knownChunkKeys \cup {SaveKeys[n] : n \in DOMAIN SaveKeys}
          /\ IF SaveKeys = <<>>
             THEN SaveResolve(id)
             ELSE /\ calls' = [calls EXCEPT ![id].pc = "chunks", ![id].left = Len(SaveKeys)]
                  /\ UNCHANGED dirtyChunks
          /\ UNCHANGED <<chunks, scene, chunksData, loadingChunks, seed>>
     ELSE Reject(j, id)

\* saveWorld whose dirtyChunks.clear() also runs when a chunk write failed
SaveChunkDoneClearOnFailure(j, id, ok) ==
  /\ id \in SaveIds
  /\ Awaited(j, id, "save", "chunks")
  /\ IF ok
     THEN /\ pending' = RemoveAt(pending, j)
          /\ db' = StoreEffect(db, pending[j], TRUE)
          /\ IF calls[id].left = 1
             THEN SaveResolve(id)
             ELSE /\ calls' = [calls EXCEPT ![id].left = @ - 1]
                  /\ UNCHANGED dirtyChunks
          /\ UNCHANGED <<chunks, scene, chunksData, knownChunkKeys, loadingChunks, seed>>
     ELSE /\ pending' = Detach(RemoveAt(pending, j), id)
          /\ SaveResolve(id)
          /\ UNCHANGED <<chunks, scene, chunksData, knownChunkKeys, loadingChunks, seed, db>>

\* saveWorld whose failed chunk write cancels the writes still outstanding
SaveChunkDoneCancelOnFailure(j, id, ok) ==
  /\ id \in SaveIds
  /\ Awaited(j, id, "save", "chunks")
  /\ IF ok
     THEN /\ pending' = RemoveAt(pending, j)
          /\ db' = StoreEffect(db, pending[j], TRUE)
          /\ IF calls[id].left = 1
             THEN SaveResolve(id)
             ELSE /\ calls' = [calls EXCEPT ![id].left = @ - 1]
                  /\ UNCHANGED dirtyChunks
          /\ UNCHANGED <<chunks, scene, chunksData, knownChunkKeys, loadingChunks, seed>>
     ELSE /\ pending' = SelectSeq(RemoveAt(pending, j), LAMBDA r : r.cont # CallCont(id))
          /\ calls' = [calls EXCEPT ![id] = Idle]
          /\ UNCHANGED <<chunks, scene, chunksData, dirtyChunks, knownChunkKeys, loadingChunks, seed, db>>

SaveChunkDone(j, id, ok) ==
  /\ id \in SaveIds
  /\ Awaited(j, id, "save", "chunks")
  /\ IF ok
     THEN /\ pending' = RemoveAt(pending, j)
          /\ db' = StoreEffect(db, pending[j], TRUE)
          /\ IF calls[id].left = 1
             THEN SaveResolve(id)
             ELSE /\ calls' = [calls EXCEPT ![id].left = @ - 1]
                  /\ UNCHANGED dirtyChunks
          /\ UNCHANGED <<chunks, scene, chunksData, knownChunkKeys, loadingChunks, seed>>
     ELSE Reject(j, id)

(* deleteWorld *)

DeleteWorld ==
  /\ calls[LifeId].op = "idle"
  /\ pending' = Append(pending, Request("init", "", MetaKey, NoVal, CallCont(LifeId)))
  /\ calls' = [calls EXCEPT ![LifeId] = [Idle EXCEPT !.op = "delete", !.pc = "init"]]
  /\ UNCHANGED <<chunks, scene, chunksData, dirtyChunks, knownChunkKeys, loadingChunks, seed, db>>

DeleteInitDone(j, ok) ==
  /\ Awaited(j, LifeId, "delete", "init")
  /\ IF ok
     THEN /\ pending' = Append(RemoveAt(pending, j),
                               Request("clear", "", MetaKey, NoVal, CallCont(LifeId)))
          /\ calls' = [calls EXCEPT ![LifeId].pc = "clear"]
          /\ UNCHANGED <<chunks, scene, chunksData, dirtyChunks, knownChunkKeys, loadingChunks,
                         seed, db>>
     ELSE Reject(j, LifeId)

\* deleteWorld that leaves its meshes in the scene
DeleteClearDoneKeepMeshes(j, ok, s) ==
  /\ Awaited(j, LifeId, "delete", "clear")
  /\ IF ok
     THEN /\ pending' = RemoveAt(pending, j)
          /\ db' = StoreEffect(db, pending[j], TRUE)
          /\ chunksData' = <<>>
          /\ dirtyChunks' = {}
          /\ knownChunkKeys' = {}
          /\ loadingChunks' = {}
          /\ seed' = s
          /\ calls' = [calls EXCEPT ![LifeId] = Idle]
          /\ UNCHANGED <<chunks, scene>>
     ELSE /\ s = seed
          /\ Reject(j, LifeId)

\* deleteWorld that keeps the seed of the deleted world
DeleteClearDoneKeepSeed(j, ok, s) ==
  /\ Awaited(j, LifeId, "delete", "clear")
  /\ IF ok
     THEN /\ pending' = RemoveAt(pending, j)
          /\ db' = StoreEffect(db, pending[j], TRUE)
          /\ chunksData' = <<>>
          /\ dirtyChunks' = {}
          /\ knownChunkKeys' = {}
          /\ loadingChunks' = {}
          /\ chunks' = NoVal
          /\ scene' = SceneRemoveAll(scene, chunks)
          /\ calls' = [calls EXCEPT ![LifeId] = Idle]
          /\ UNCHANGED seed
     ELSE /\ s = seed
          /\ Reject(j, LifeId)

\* deleteWorld that wipes the memory whether or not the store was cleared
DeleteClearDoneWipeOnFailure(j, ok, s) ==
  /\ Awaited(j, LifeId, "delete", "clear")
  /\ pending' = IF ok THEN RemoveAt(pending, j) ELSE Detach(RemoveAt(pending, j), LifeId)
  /\ db' = StoreEffect(db, pending[j], ok)
  /\ chunksData' = <<>>
  /\ dirtyChunks' = {}
  /\ knownChunkKeys' = {}
  /\ loadingChunks' = {}
  /\ chunks' = NoVal
  /\ scene' = SceneRemoveAll(scene, chunks)
  /\ seed' = s
  /\ calls' = [calls EXCEPT ![LifeId] = Idle]

DeleteClearDone(j, ok, s) ==
  /\ Awaited(j, LifeId, "delete", "clear")
  /\ IF ok
     THEN /\ pending' = RemoveAt(pending, j)
          /\ db' = StoreEffect(db, pending[j], TRUE)
          /\ chunksData' = <<>>
          /\ dirtyChunks' = {}
          /\ knownChunkKeys' = {}
          /\ loadingChunks' = {}
          /\ chunks' = NoVal
          /\ scene' = SceneRemoveAll(scene, chunks)
          /\ seed' = s
          /\ calls' = [calls EXCEPT ![LifeId] = Idle]
     ELSE /\ s = seed
          /\ Reject(j, LifeId)

(* completions nobody awaits *)

\* worldDB.get(key, 'chunks').then(...).finally(...) of ensureChunk
\* ensureChunk that takes a failed get for a get with no data
FetchDoneErrorIsNotFound(j, ok) ==
  /\ j \in DOMAIN pending
  /\ CanComplete(pending, j)
  /\ pending[j].cont.kind = "fetch"
  /\ LET key == pending[j].key
         w0 == [World EXCEPT !.pending = RemoveAt(pending, j)]
         w1 == IF ok /\ key \in DOMAIN db.chunks
               THEN buildChunkMesh(
                      [w0 EXCEPT !.chunksData = MapSet(w0.chunksData, key, db.chunks[key])],
                      KeyX(key), KeyZ(key), db.chunks[key])
               ELSE generateChunk(w0, KeyX(key), KeyZ(key))
     IN  Apply([w1 EXCEPT !.loadingChunks = w1.loadingChunks \ {key}])
  /\ UNCHANGED <<db, calls>>

\* ensureChunk without the fallback for a get with no data
FetchDoneDropEmpty(j, ok) ==
  /\ j \in DOMAIN pending
  /\ CanComplete(pending, j)
  /\ pending[j].cont.kind = "fetch"
  /\ LET key == pending[j].key
         w0 == [World EXCEPT !.pending = RemoveAt(pending, j)]
         w1 == IF ~ok THEN w0
               ELSE IF key \in DOMAIN db.chunks
               THEN buildChunkMesh(
                      [w0 EXCEPT !.chunksData = MapSet(w0.chunksData, key, db.chunks[key])],
                      KeyX(key), KeyZ(key), db.chunks[key])
               ELSE w0
     IN  Apply([w1 EXCEPT !.loadingChunks = w1.loadingChunks \ {key}])
  /\ UNCHANGED <<db, calls>>

\* ensureChunk that marks a fetched chunk for saving
FetchDoneMarkDirty(j, ok) ==
  /\ j \in DOMAIN pending
  /\ CanComplete(pending, j)
  /\ pending[j].cont.kind = "fetch"
  /\ LET key == pending[j].key
         w0 == [World EXCEPT !.pending = RemoveAt(pending, j)]
         w1 == IF ~ok THEN w0
               ELSE IF key \in DOMAIN db.chunks
               THEN buildChunkMesh(
                      [w0 EXCEPT !.chunksData = MapSet(w0.chunksData, key, db.chunks[key]),
                                 !.dirtyChunks = w0.dirtyChunks \cup {key}],
                      KeyX(key), KeyZ(key), db.chunks[key])
               ELSE generateChunk(w0, KeyX(key), KeyZ(key))
     IN  Apply([w1 EXCEPT !.loadingChunks = w1.loadingChunks \ {key}])
  /\ UNCHANGED <<db, calls>>

\* ensureChunk without the finally: the key stays in flight when the get fails
FetchDoneKeepMarkOnError(j, ok) ==
  /\ j \in DOMAIN pending
  /\ CanComplete(pending, j)
  /\ pending[j].cont.kind = "fetch"
  /\ LET key == pending[j].key
         w0 == [World EXCEPT !.pending = RemoveAt(pending, j)]
         w1 == IF ~ok THEN w0
               ELSE IF key \in DOMAIN db.chunks
               THEN buildChunkMesh(
                      [w0 EXCEPT !.chunksData = MapSet(w0.chunksData, key, db.chunks[key])],
                      KeyX(key), KeyZ(key), db.chunks[key])
               ELSE generateChunk(w0, KeyX(key), KeyZ(key))
     IN  Apply(IF ok THEN [w1 EXCEPT !.loadingChunks = w1.loadingChunks \ {key}] ELSE w1)
  /\ UNCHANGED <<db, calls>>

FetchDone(j, ok) ==
  /\ j \in DOMAIN pending
  /\ CanComplete(pending, j)
  /\ pending[j].cont.kind = "fetch"
  /\ LET key == pending[j].key
         w0 == [World EXCEPT !.pending = RemoveAt(pending, j)]
         w1 == IF ~ok THEN w0
               ELSE IF key \in DOMAIN db.chunks
               THEN buildChunkMesh(
                      [w0 EXCEPT !.chunksData = MapSet(w0.chunksData, key, db.chunks[key])],
                      KeyX(key), KeyZ(key), db.chunks[key])
               ELSE generateChunk(w0, KeyX(key), KeyZ(key))
     IN  Apply([w1 EXCEPT !.loadingChunks = w1.loadingChunks \ {key}])
  /\ UNCHANGED <<db, calls>>

\* worldDB.set(key, data, 'chunks').then(...) of checkMemory
EvictWriteDone(j, ok) ==
  /\ j \in DOMAIN pending
  /\ CanComplete(pending, j)
  /\ pending[j].cont.kind = "evict"
  /\ pending' = RemoveAt(pending, j)
  /\ db' = StoreEffect(db, pending[j], ok)
  /\ knownChunkKeys' = IF ok THEN knownChunkKeys \cup {pending[j].key} ELSE knownChunkKeys
  /\ UNCHANGED <<chunks, scene, chunksData, dirtyChunks, loadingChunks, seed, calls>>

\* a request whose caller is gone (the call was rejected, the instance discarded)
OrphanDone(j, ok) ==
  /\ j \in DOMAIN pending
  /\ CanComplete(pending, j)
  /\ pending[j].cont.kind = "none"
  /\ pending' = RemoveAt(pending, j)
  /\ db' = StoreEffect(db, pending[j], ok)
  /\ UNCHANGED <<chunks, scene, chunksData, dirtyChunks, knownChunkKeys, loadingChunks, seed, calls>>

Slots == 1..(MaxPending + 1)

\* at most n store requests outstanding after the step
Cap(n) == Len(pending') <= n

(* ------------------------------- inventory ------------------------------ *)

\* handleSlotClick(index): the slots and the dragged stack it leaves
handleSlotClick(slots, dragged, index) ==
  LET slot == slots[index]
  IN  IF dragged = NoItem
      THEN IF slot.id # 0
           THEN [slots |-> [slots EXCEPT ![index] = NoItem], dragged |-> slot]
           ELSE [slots |-> slots, dragged |-> dragged]
      ELSE IF slot.id = 0
      THEN [slots |-> [slots EXCEPT ![index] = dragged], dragged |-> NoItem]
      ELSE IF slot.id = dragged.id
      THEN [slots |-> [slots EXCEPT ![index].count = @ + dragged.count], dragged |-> NoItem]
      ELSE [slots |-> [slots EXCEPT ![index] = dragged], dragged |-> slot]

\* toggleInventory, the loop of its closing branch: the dragged stack goes to the
\* first slot that is empty or holds its id, and nowhere when there is none
putBackDragged(slots, dragged) ==
  LET fit == { i \in 1..NumSlots : slots[i].id = 0 \/ slots[i].id = dragged.id }
  IN  IF fit = {} THEN slots
      ELSE LET i == CHOOSE n \in fit : \A m \in fit : n <= m
           IN  IF slots[i].id = 0
               THEN [slots EXCEPT ![i] = dragged]
               ELSE [slots EXCEPT ![i].count = @ + dragged.count]

\* animate, the pickup of an item entity of the type: one more in the first slot of
\* that id, else in the first empty slot, else the entity stays where it is
pickup(slots, type) ==
  LET same  == { i \in 1..NumSlots : slots[i].id = type }
      empty == { i \in 1..NumSlots : slots[i].id = 0 }
      First(set) == CHOOSE n \in set : \A m \in set : n <= m
  IN  IF same # {} THEN [slots EXCEPT ![First(same)].count = @ + 1]
      ELSE IF empty # {} THEN [slots EXCEPT ![First(empty)] = [id |-> type, count |-> 1]]
      ELSE slots

\* a mousedown or touchstart on a slot; the listener calls handleSlotClick only
\* while the inventory is open
HandleSlotClick(index) ==
  /\ isInventoryOpen
  /\ LET r == handleSlotClick(inventorySlots, draggedItem, index)
     IN  /\ inventorySlots' = r.slots
         /\ draggedItem' = r.dragged
  /\ UNCHANGED <<isInventoryOpen, world>>

\* toggleInventory(): opening changes the flag; closing calls world.saveWorld with
\* the slots as they are and then puts the dragged stack back
ToggleInventory(playerData) ==
  /\ isInventoryOpen' = ~isInventoryOpen
  /\ IF ~isInventoryOpen
     THEN UNCHANGED <<inventorySlots, draggedItem, world>>
     ELSE /\ \E id \in SaveIds : SaveWorld(id, playerData)
          /\ inventorySlots' = IF draggedItem # NoItem
                               THEN putBackDragged(inventorySlots, draggedItem)
                               ELSE inventorySlots
          /\ draggedItem' = NoItem

\* a frame of animate while the game runs: world.update, then the pickup of the item
\* entity within reach, if there is one (type 0: none)
Animate(playerPos, cleanup, type) ==
  /\ Update(playerPos, cleanup)
  /\ inventorySlots' = IF type = 0 THEN inventorySlots ELSE pickup(inventorySlots, type)
  /\ UNCHANGED <<draggedItem, isInventoryOpen>>

(* ------------------------------- histories ------------------------------ *)

\* the history variables record what has happened; no action reads them. The
\* operations of World leave the inventory as it is, which each Keep says with them
Ev(name, args) == event' = [op |-> name, args |-> args]

Keep == UNCHANGED <<ui, evicted, saving, owed, expect, indexed>>

\* how the fetch at j ends: with an error, with the record, or with no record
FetchOutcome(j, ok) ==
  IF ~ok THEN "fetchFailed"
  ELSE IF pending[j].key \in DOMAIN db.chunks THEN "fetched" ELSE "fetchEmpty"

\* failed: the keys whose fetch failed, until they are cached
Failing(keys) == failed' = (failed \cup keys) \ MapKeys(chunksData')

Quiet == UNCHANGED <<ui, event, evicted, saving, owed, expect, indexed, failed>>

\* evicted: the keys checkMemory dropped and that are still out of the cache, each
\* with its volume and dirty flag at the moment of its eviction
Evicting(playerPos) ==
  LET w2 == updateGrid(World, playerPos)
  IN  evicted' =
        [k \in (DOMAIN evicted \cup MapKeys(w2.chunksData)) \ MapKeys(chunksData') |->
           IF MapHas(w2.chunksData, k)
           THEN [val |-> MapGet(w2.chunksData, k), dirty |-> k \in w2.dirtyChunks]
           ELSE evicted[k]]

StillEvicted == evicted' = [k \in DOMAIN evicted \ MapKeys(chunksData') |-> evicted[k]]

KeepButEvicted == UNCHANGED <<ui, event, saving, owed, expect, indexed, failed>>

\* owed: the keys whose cached volume is the one the last effective setBlock on the
\* key left, with that volume
OwedFrom(base) ==
  owed' = [k \in { k \in DOMAIN base : MapHas(chunksData', k) /\ MapGet(chunksData', k) = base[k] }
             |-> base[k]]

Edited(x, y, z) ==
  IF isChunkLoaded(x, z) /\ y >= 0 /\ y < chunkSize
  THEN OwedFrom(With(owed, ChunkKey(ChunkCoord(x), ChunkCoord(z)),
                     MapGet(chunksData', ChunkKey(ChunkCoord(x), ChunkCoord(z)))))
  ELSE OwedFrom(owed)

NoSaving ==
  [covers |-> NoVal, wrote |-> NoVal, kept |-> {}, alone |-> TRUE, dirty0 |-> {}, held |-> {}]

\* the part of a call's covers that no later setBlock, eviction or reload has touched
StillCovered(c) == [k \in { k \in DOMAIN c : k \in DOMAIN owed' /\ owed'[k] = c[k] } |-> c[k]]

\* the chunk writes the call i has just issued: key and volume
Issued(i) ==
  [n \in { pending'[j].key : j \in { j \in DOMAIN pending' : pending'[j].cont = CallCont(i) } }
     |-> MapGet(chunksData, n)]

\* saving: for each suspended saveWorld call, covers are the volumes owed when it was
\* called and untouched since, wrote the volumes its chunk writes carry
Saving(started, issued) ==
  saving' =
    [i \in SaveIds |->
       IF calls'[i].op # "save" THEN NoSaving
       ELSE [covers |-> IF i \in started THEN owed' ELSE StillCovered(saving[i].covers),
             wrote |-> IF i \in issued THEN Issued(i) ELSE saving[i].wrote,
             kept |-> {}, alone |-> TRUE, dirty0 |-> {}, held |-> {}]]

\* no other saveWorld, loadWorld or deleteWorld call is suspended after the step
Alone(i) == \A o \in CallIds \ {i} : calls'[o].op = "idle"

\* saving with the writes alone, kept by a call that has ended for one more
\* step: wrote as above, kept the written keys that have stayed cached since, alone
\* whether no other call has been suspended since the call's start, dirty0 the
\* dirty set at the call, held its keys that have stayed cached since
Wrote(started, issued) ==
  saving' =
    [i \in SaveIds |->
       IF i \in started
       THEN [NoSaving EXCEPT !.alone = Alone(i), !.dirty0 = dirtyChunks,
                             !.held = dirtyChunks \cap MapKeys(chunksData)]
       ELSE IF calls[i].op # "save" THEN NoSaving
       ELSE [covers |-> NoVal,
             wrote |-> IF i \in issued THEN Issued(i) ELSE saving[i].wrote,
             kept |-> IF i \in issued THEN DOMAIN Issued(i)
                      ELSE saving[i].kept \cap MapKeys(chunksData'),
             alone |-> saving[i].alone /\ Alone(i),
             dirty0 |-> saving[i].dirty0,
             held |-> saving[i].held \cap MapKeys(chunksData')]]

KeepButWrote == UNCHANGED <<ui, evicted, owed, expect, indexed, failed>>

\* expect: what the store owes a reader: the covers of every saveWorld call that
\* resolved, until the key is dirty again
Expecting(resolved) ==
  LET base == [k \in DOMAIN expect \cup UNION { DOMAIN saving[i].covers : i \in resolved } |->
                 IF \E i \in resolved : k \in DOMAIN saving[i].covers
                 THEN saving[CHOOSE i \in resolved : k \in DOMAIN saving[i].covers].covers[k]
                 ELSE expect[k]]
  IN  expect' = [k \in DOMAIN base \ dirtyChunks' |-> base[k]]

\* the saveWorld calls that resolve, not reject, in this step
Resolved(ok) == IF ok THEN { i \in SaveIds : calls[i].op = "save" /\ calls'[i].op = "idle" } ELSE {}

KeepButSaves == UNCHANGED <<ui, event, evicted, failed>>

(* ---------------------------- specifications ---------------------------- *)

\* streaming, block edits and saves of one instance
Next ==
  \/ \E p \in Positions, c \in BOOLEAN : Update(p, c) /\ Cap(MaxPending) /\ Quiet
  \/ \E x \in SetXs, y \in SetYs, z \in SetZs, t \in SetTypes :
       SetBlock(x, y, z, t) /\ Quiet
  \/ \E id \in SaveIds, pd \in PlayerDatas : SaveWorld(id, pd) /\ Cap(MaxPending) /\ Quiet
  \/ \E j \in Slots, id \in SaveIds, ok \in BOOLEAN :
       SaveMetaDone(j, id, ok) /\ Cap(MaxPending) /\ Quiet
  \/ \E j \in Slots, id \in SaveIds, ok \in BOOLEAN : SaveChunkDone(j, id, ok) /\ Quiet
  \/ \E j \in Slots, ok \in BOOLEAN : FetchDone(j, ok) /\ Quiet
  \/ \E j \in Slots, ok \in BOOLEAN : EvictWriteDone(j, ok) /\ Quiet
  \/ \E j \in Slots, ok \in BOOLEAN : OrphanDone(j, ok) /\ Quiet

Spec == Init /\ [][Next]_vars

\* streaming and block edits, with event telling a call of setBlock, and its
\* arguments, from any other step
NextEdit ==
  \/ \E p \in Positions, c \in BOOLEAN :
       Update(p, c) /\ Cap(MaxPending) /\ Ev("step", <<>>) /\ Failing({}) /\ Keep
  \/ \E x \in SetXs, y \in SetYs, z \in SetZs, t \in SetTypes :
       SetBlock(x, y, z, t) /\ Ev("setBlock", <<x, y, z, t>>) /\ Failing({}) /\ Keep
  \/ \E j \in Slots, ok \in BOOLEAN :
       /\ FetchDone(j, ok)
       /\ Ev(FetchOutcome(j, ok), <<pending[j].key>>)
       /\ Failing(IF ok THEN {} ELSE {pending[j].key}) /\ Keep
  \/ \E j \in Slots, ok \in BOOLEAN :
       EvictWriteDone(j, ok) /\ Ev("step", <<>>) /\ Failing({}) /\ Keep

SpecEdit == Init /\ [][NextEdit]_vars

\* streaming, edits and saves with deleteWorld called at any moment; saveWorld is
\* always handed the same player data
NextDelete ==
  \/ \E p \in Positions, c \in BOOLEAN : Update(p, c) /\ Cap(MaxPending) /\ Quiet
  \/ \E x \in SetXs, y \in SetYs, z \in SetZs, t \in SetTypes :
       SetBlock(x, y, z, t) /\ Quiet
  \/ \E id \in SaveIds : SaveWorld(id, "pd1") /\ Cap(MaxPending) /\ Quiet
  \/ \E j \in Slots, id \in SaveIds, ok \in BOOLEAN :
       SaveMetaDone(j, id, ok) /\ Cap(MaxPending) /\ Quiet
  \/ \E j \in Slots, id \in SaveIds, ok \in BOOLEAN : SaveChunkDone(j, id, ok) /\ Quiet
  \/ \E j \in Slots, ok \in BOOLEAN : FetchDone(j, ok) /\ Quiet
  \/ \E j \in Slots, ok \in BOOLEAN : EvictWriteDone(j, ok) /\ Quiet
  \/ \E j \in Slots, ok \in BOOLEAN : OrphanDone(j, ok) /\ Quiet
  \/ DeleteWorld /\ Cap(MaxPending) /\ Quiet
  \/ \E j \in Slots, ok \in BOOLEAN : DeleteInitDone(j, ok) /\ Quiet
  \/ \E j \in Slots, ok \in BOOLEAN, s \in Seeds : DeleteClearDone(j, ok, s) /\ Quiet

SpecDelete == Init /\ [][NextDelete]_vars

\* update, saveWorld and deleteWorld with no store failure and no block edit, and
\* room for one more outstanding request
NextRefetch ==
  \/ \E p \in Positions, c \in BOOLEAN : Update(p, c) /\ Cap(MaxPending + 1) /\ Quiet
  \/ \E id \in SaveIds : SaveWorld(id, "pd1") /\ Cap(MaxPending + 1) /\ Quiet
  \/ \E j \in Slots, id \in SaveIds : SaveMetaDone(j, id, TRUE) /\ Cap(MaxPending + 1) /\ Quiet
  \/ \E j \in Slots, id \in SaveIds : SaveChunkDone(j, id, TRUE) /\ Quiet
  \/ \E j \in Slots : FetchDone(j, TRUE) /\ Quiet
  \/ \E j \in Slots : EvictWriteDone(j, TRUE) /\ Quiet
  \/ DeleteWorld /\ Cap(MaxPending + 1) /\ Quiet
  \/ \E j \in Slots : DeleteInitDone(j, TRUE) /\ Quiet
  \/ \E j \in Slots, s \in Seeds : DeleteClearDone(j, TRUE, s) /\ Quiet

SpecRefetch == Init /\ [][NextRefetch]_vars

\* streaming, edits and saves, with the evictions recorded
NextEvict ==
  \/ \E p \in Positions, c \in BOOLEAN :
       Update(p, c) /\ Cap(MaxPending) /\ Evicting(p) /\ KeepButEvicted
  \/ \E x \in SetXs, y \in SetYs, z \in SetZs, t \in SetTypes :
       SetBlock(x, y, z, t) /\ StillEvicted /\ KeepButEvicted
  \/ \E id \in SaveIds, pd \in PlayerDatas :
       SaveWorld(id, pd) /\ Cap(MaxPending) /\ StillEvicted /\ KeepButEvicted
  \/ \E j \in Slots, id \in SaveIds, ok \in BOOLEAN :
       SaveMetaDone(j, id, ok) /\ Cap(MaxPending) /\ StillEvicted /\ KeepButEvicted
  \/ \E j \in Slots, id \in SaveIds, ok \in BOOLEAN :
       SaveChunkDone(j, id, ok) /\ StillEvicted /\ KeepButEvicted
  \/ \E j \in Slots, ok \in BOOLEAN : FetchDone(j, ok) /\ StillEvicted /\ KeepButEvicted
  \/ \E j \in Slots, ok \in BOOLEAN : EvictWriteDone(j, ok) /\ StillEvicted /\ KeepButEvicted
  \/ \E j \in Slots, ok \in BOOLEAN : OrphanDone(j, ok) /\ StillEvicted /\ KeepButEvicted

SpecEvict == Init /\ [][NextEvict]_vars

\* the round trip through the store with no store failure and no eviction: edits
\* that place WOOD and saves of the same player data, then a fresh instance that
\* loads and streams
NextRoundTrip ==
  \/ \E p \in Positions :
       /\ Update(p, FALSE) /\ Cap(MaxPending)
       /\ OwedFrom(owed) /\ Saving({}, {}) /\ Expecting({}) /\ UNCHANGED indexed /\ KeepButSaves
  \/ \E x \in SetXs, y \in SetYs, z \in SetZs, t \in {WOOD} :
       /\ SetBlock(x, y, z, t)
       /\ Edited(x, y, z) /\ Saving({}, {}) /\ Expecting({}) /\ UNCHANGED indexed /\ KeepButSaves
  \/ \E id \in SaveIds :
       /\ SaveWorld(id, "pd1") /\ Cap(MaxPending)
       /\ OwedFrom(owed) /\ Saving({id}, {}) /\ Expecting({}) /\ UNCHANGED indexed /\ KeepButSaves
  \/ \E j \in Slots, id \in SaveIds :
       /\ SaveMetaDone(j, id, TRUE) /\ Cap(MaxPending)
       /\ OwedFrom(owed) /\ Saving({}, {id}) /\ Expecting(Resolved(TRUE))
       /\ UNCHANGED indexed /\ KeepButSaves
  \/ \E j \in Slots, id \in SaveIds :
       /\ SaveChunkDone(j, id, TRUE)
       /\ OwedFrom(owed) /\ Saving({}, {}) /\ Expecting(Resolved(TRUE))
       /\ UNCHANGED indexed /\ KeepButSaves
  \/ \E j \in Slots :
       /\ FetchDone(j, TRUE)
       /\ OwedFrom(owed) /\ Saving({}, {}) /\ Expecting({}) /\ UNCHANGED indexed /\ KeepButSaves
  \/ \E j \in Slots :
       /\ OrphanDone(j, TRUE)
       /\ OwedFrom(owed) /\ Saving({}, {}) /\ Expecting({}) /\ UNCHANGED indexed /\ KeepButSaves
  \/ \E s \in Seeds :
       /\ NewWorld(s)
       /\ OwedFrom(owed) /\ Saving({}, {}) /\ Expecting({}) /\ indexed' = FALSE /\ KeepButSaves
  \/ /\ LoadWorld /\ Cap(MaxPending)
     /\ OwedFrom(owed) /\ Saving({}, {}) /\ Expecting({}) /\ UNCHANGED indexed /\ KeepButSaves
  \/ \E j \in Slots :
       /\ LoadInitDone(j, TRUE)
       /\ OwedFrom(owed) /\ Saving({}, {}) /\ Expecting({}) /\ UNCHANGED indexed /\ KeepButSaves
  \/ \E j \in Slots :
       /\ LoadMetaDone(j, TRUE)
       /\ OwedFrom(owed) /\ Saving({}, {}) /\ Expecting({}) /\ UNCHANGED indexed /\ KeepButSaves
  \/ \E j \in Slots :
       /\ LoadKeysDone(j, TRUE)
       /\ OwedFrom(owed) /\ Saving({}, {}) /\ Expecting({}) /\ indexed' = TRUE /\ KeepButSaves

SpecRoundTrip == Init /\ [][NextRoundTrip]_vars

\* how a completion leaves the saveWorld call id
Outcome(id, ok) ==
  IF ~ok THEN "rejected" ELSE IF id \in Resolved(ok) THEN "resolved" ELSE "step"

\* streaming, edits that remove a block and saves, with the outcome and the writes
\* of each saveWorld call recorded
NextSave ==
  \/ \E p \in Positions, c \in BOOLEAN :
       Update(p, c) /\ Cap(MaxPending) /\ Ev("step", <<>>) /\ Wrote({}, {}) /\ KeepButWrote
  \/ \E x \in SetXs, y \in SetYs, z \in SetZs, t \in {AIR} :
       SetBlock(x, y, z, t) /\ Ev("step", <<>>) /\ Wrote({}, {}) /\ KeepButWrote
  \/ \E id \in SaveIds, pd \in PlayerDatas :
       SaveWorld(id, pd) /\ Cap(MaxPending) /\ Ev("step", <<>>) /\ Wrote({id}, {}) /\ KeepButWrote
  \/ \E j \in Slots, id \in SaveIds, ok \in BOOLEAN :
       /\ SaveMetaDone(j, id, ok) /\ Cap(MaxPending)
       /\ Ev(Outcome(id, ok), <<id, calls[id].data>>)
       /\ Wrote({}, {id}) /\ KeepButWrote
  \/ \E j \in Slots, id \in SaveIds, ok \in BOOLEAN :
       /\ SaveChunkDone(j, id, ok)
       /\ Ev(Outcome(id, ok), <<id, calls[id].data>>)
       /\ Wrote({}, {}) /\ KeepButWrote
  \/ \E j \in Slots, ok \in BOOLEAN :
       /\ FetchDone(j, ok)
       /\ Ev(FetchOutcome(j, ok), <<pending[j].key>>)
       /\ Wrote({}, {}) /\ KeepButWrote
  \/ \E j \in Slots, ok \in BOOLEAN : EvictWriteDone(j, ok) /\ Ev("step", <<>>) /\ Wrote({}, {}) /\ KeepButWrote
  \/ \E j \in Slots, ok \in BOOLEAN :
       /\ OrphanDone(j, ok)
       /\ Ev(IF ok THEN "written" ELSE "step", <<pending[j].key, pending[j].val>>)
       /\ Wrote({}, {}) /\ KeepButWrote

SpecSave == Init /\ [][NextSave]_vars

\* how a completion leaves loadWorld or deleteWorld: the store failed the awaited
\* request, the call went on to its next request, or the call returned
LifeOutcome(ok, returned) == IF ~ok THEN "failed" ELSE returned

KeepButEvent == UNCHANGED <<ui, evicted, saving, owed, expect, indexed, failed>>

KeepHistories == UNCHANGED <<evicted, saving, owed, expect, indexed, failed>>

\* the menu and the game over one store: loadWorld and deleteWorld with store
\* failures, a fresh instance at a page load, streaming, and saveWorld called
\* while no loadWorld or deleteWorld is running
NextLife ==
  \/ \E p \in Positions :
       Update(p, FALSE) /\ Cap(MaxPending) /\ Ev("step", <<>>) /\ KeepButEvent
  \/ \E id \in SaveIds :
       /\ calls[LifeId].op = "idle"
       /\ SaveWorld(id, "pd1") /\ Cap(MaxPending) /\ Ev("step", <<>>) /\ KeepButEvent
  \/ \E j \in Slots, id \in SaveIds, ok \in BOOLEAN :
       /\ SaveMetaDone(j, id, ok) /\ Cap(MaxPending)
       /\ Ev(LifeOutcome(ok, "step"), <<id, pending[j].op>>) /\ KeepButEvent
  \/ \E j \in Slots, id \in SaveIds, ok \in BOOLEAN :
       /\ SaveChunkDone(j, id, ok)
       /\ Ev(LifeOutcome(ok, "step"), <<id, pending[j].op>>) /\ KeepButEvent
  \/ \E j \in Slots : FetchDone(j, TRUE) /\ Ev("step", <<>>) /\ KeepButEvent
  \/ \E j \in Slots, ok \in BOOLEAN : OrphanDone(j, ok) /\ Ev("step", <<>>) /\ KeepButEvent
  \/ \E s \in Seeds : NewWorld(s) /\ Ev("step", <<>>) /\ KeepButEvent
  \/ DeleteWorld /\ Cap(MaxPending) /\ Ev("step", <<>>) /\ KeepButEvent
  \/ \E j \in Slots, ok \in BOOLEAN :
       /\ DeleteInitDone(j, ok)
       /\ Ev(LifeOutcome(ok, "step"), <<LifeId, pending[j].op>>) /\ KeepButEvent
  \/ \E j \in Slots, ok \in BOOLEAN, s \in Seeds :
       /\ DeleteClearDone(j, ok, s)
       /\ Ev(LifeOutcome(ok, "deleted"), <<LifeId, pending[j].op, s>>) /\ KeepButEvent
  \/ LoadWorld /\ Cap(MaxPending) /\ Ev("step", <<>>) /\ KeepButEvent
  \/ \E j \in Slots, ok \in BOOLEAN :
       /\ LoadInitDone(j, ok)
       /\ Ev(LifeOutcome(ok, "step"), <<LifeId, pending[j].op>>) /\ KeepButEvent
  \/ \E j \in Slots, ok \in BOOLEAN :
       /\ LoadMetaDone(j, ok)
       /\ Ev(LifeOutcome(ok, "step"), <<LifeId, pending[j].op>>) /\ KeepButEvent
  \/ \E j \in Slots, ok \in BOOLEAN :
       /\ LoadKeysDone(j, ok)
       /\ Ev(LifeOutcome(ok, "loaded"),
             <<LifeId, pending[j].op, seed, LoadResult(calls[LifeId].meta)>>)
       /\ KeepButEvent

SpecLife == Init /\ [][NextLife]_vars

\* the position of the most recent call of update, if any
LastPos == IF event.args = <<>> THEN <<>> ELSE <<event.args[1]>>

\* a step that is no call of update: the position of the last call stays on record
Ticked == Ev("step", LastPos)

\* the ticks of animate, with the position of the most recent call of update, and
\* whether its memory cleanup ran, on record; block edits and the completions of
\* fetches, with their keys, and of eviction writes fall between the ticks
NextTick ==
  \/ \E p \in Positions, c \in BOOLEAN :
       /\ Update(p, c) /\ Cap(MaxPending)
       /\ Ev(IF c THEN "cleanup" ELSE "update", <<p>>) /\ KeepButEvent
  \/ \E x \in SetXs, y \in SetYs, z \in SetZs, t \in {WOOD} :
       SetBlock(x, y, z, t) /\ Ticked /\ KeepButEvent
  \/ \E j \in Slots :
       /\ FetchDone(j, TRUE)
       /\ Ev(FetchOutcome(j, TRUE), LastPos \o <<pending[j].key>>) /\ KeepButEvent
  \/ \E j \in Slots, ok \in BOOLEAN : EvictWriteDone(j, ok) /\ Ticked /\ KeepButEvent

SpecTick == Init /\ [][NextTick]_vars

\* a tick of animate: update at some position, with or without the memory cleanup
Tick ==
  \E p \in Positions, c \in BOOLEAN :
    /\ Update(p, c) /\ Cap(MaxPending)
    /\ Ev(IF c THEN "cleanup" ELSE "update", <<p>>) /\ KeepButEvent

\* a get of ensureChunk resolves, with data or with none
FetchResolved ==
  \E j \in Slots :
    /\ FetchDone(j, TRUE)
    /\ Ev(FetchOutcome(j, TRUE), LastPos \o <<pending[j].key>>) /\ KeepButEvent

\* a get of ensureChunk fails
FetchRejected ==
  \E j \in Slots :
    /\ FetchDone(j, FALSE)
    /\ Ev(FetchOutcome(j, FALSE), LastPos \o <<pending[j].key>>) /\ KeepButEvent

\* a write of checkMemory completes or fails
EvictionWritten ==
  \E j \in Slots, ok \in BOOLEAN : EvictWriteDone(j, ok) /\ Ticked /\ KeepButEvent

NextStream == Tick \/ FetchResolved \/ FetchRejected \/ EvictionWritten

\* streaming with store failures, under the scheduling of the program: animate runs
\* on every frame, so update keeps being called; the store completes every request;
\* and a get that is issued again and again does not fail for ever
SpecStream ==
  /\ Init /\ [][NextStream]_vars
  /\ WF_vars(Tick)
  /\ WF_vars(EvictionWritten)
  /\ WF_vars(FetchResolved \/ FetchRejected)
  /\ SF_vars(FetchResolved)

\* the cache of one instance under every operation that reaches it: the ticks of
\* animate with and without the memory cleanup, block edits, saves, the completions
\* of fetches and eviction writes with store failures, and deleteWorld called at any
\* moment, its store failures included; event tells the operation of the last step
NextCache ==
  \/ \E p \in Positions, c \in BOOLEAN :
       /\ Update(p, c) /\ Cap(MaxPending)
       /\ Ev(IF c THEN "cleanup" ELSE "update", <<p>>) /\ KeepButEvent
  \/ \E x \in SetXs, y \in SetYs, z \in SetZs, t \in {WOOD} :
       SetBlock(x, y, z, t) /\ Ev("setBlock", <<>>) /\ KeepButEvent
  \/ \E id \in SaveIds :
       SaveWorld(id, "pd1") /\ Cap(MaxPending) /\ Ev("step", <<>>) /\ KeepButEvent
  \/ \E j \in Slots, id \in SaveIds :
       SaveMetaDone(j, id, TRUE) /\ Cap(MaxPending) /\ Ev("step", <<>>) /\ KeepButEvent
  \/ \E j \in Slots, id \in SaveIds :
       SaveChunkDone(j, id, TRUE) /\ Ev("step", <<>>) /\ KeepButEvent
  \/ \E j \in Slots, ok \in BOOLEAN :
       FetchDone(j, ok) /\ Ev(FetchOutcome(j, ok), <<pending[j].key>>) /\ KeepButEvent
  \/ \E j \in Slots, ok \in BOOLEAN :
       EvictWriteDone(j, ok) /\ Ev("step", <<>>) /\ KeepButEvent
  \/ DeleteWorld /\ Cap(MaxPending) /\ Ev("step", <<>>) /\ KeepButEvent
  \/ \E j \in Slots, ok \in BOOLEAN :
       DeleteInitDone(j, ok) /\ Ev("step", <<>>) /\ KeepButEvent
  \/ \E j \in Slots, ok \in BOOLEAN, s \in Seeds :
       DeleteClearDone(j, ok, s) /\ Ev(LifeOutcome(ok, "deleted"), <<>>) /\ KeepButEvent

SpecCache == Init /\ [][NextCache]_vars

\* the volumes handed to the mesher: one voxel, and two adjacent voxels
MeshVolumes ==
  { OneVoxel(c[1], c[2], c[3], t) : c \in MeshCoords \X MeshCoords \X MeshCoords, t \in BlockTypes }
  \cup
  UNION { { TwoVoxels(c[1], c[2], c[3], t[1], side, t[2]) :
              c \in { c \in MeshCoords \X MeshCoords \X MeshCoords :
                        /\ c[1] + SideOffset(side)[1] \in 0..(chunkSize - 1)
                        /\ c[2] + SideOffset(side)[2] \in 0..(chunkSize - 1)
                        /\ c[3] + SideOffset(side)[3] \in 0..(chunkSize - 1) },
              t \in BlockTypes \X BlockTypes } : side \in Sides }

\* a world with a volume about to be meshed
InitMesh ==
  /\ chunks = NoVal
  /\ scene = NoVal
  /\ chunksData = <<>>
  /\ dirtyChunks = {}
  /\ knownChunkKeys = {}
  /\ loadingChunks = {}
  /\ seed \in Seeds
  /\ db = EmptyDb
  /\ pending = <<>>
  /\ calls = [i \in CallIds |-> Idle]
  /\ inventorySlots = [i \in 1..NumSlots |-> NoItem]
  /\ draggedItem = NoItem
  /\ isInventoryOpen = FALSE
  /\ event \in { [op |-> "volume", args |-> <<data>>] : data \in MeshVolumes }
  /\ evicted = NoVal
  /\ saving = [i \in SaveIds |-> NoSaving]
  /\ owed = NoVal
  /\ expect = NoVal
  /\ indexed = TRUE
  /\ failed = {}

\* generateChunkMesh(data, cx, cz): the volume and its geometry go on record
Meshed ==
  /\ event.op = "volume"
  /\ Ev("generateChunkMesh", <<event.args[1], Geometry(event.args[1])>>)
  /\ UNCHANGED <<chunks, scene, chunksData, dirtyChunks, knownChunkKeys, loadingChunks, seed,
                 db, pending, calls>>

\* the mesher alone, on each volume of MeshVolumes
NextMesh == Meshed /\ KeepButEvent

SpecMesh == InitMesh /\ [][NextMesh]_vars

\* a world about to generate a chunk, with the seed, the chunk and the random
\* numbers on record
InitGen ==
  /\ chunks = NoVal
  /\ scene = NoVal
  /\ chunksData = <<>>
  /\ dirtyChunks = {}
  /\ knownChunkKeys = {}
  /\ loadingChunks = {}
  /\ seed \in Seeds
  /\ db = EmptyDb
  /\ pending = <<>>
  /\ calls = [i \in CallIds |-> Idle]
  /\ inventorySlots = [i \in 1..NumSlots |-> NoItem]
  /\ draggedItem = NoItem
  /\ isInventoryOpen = FALSE
  /\ event \in { [op |-> "chunk", args |-> <<c, rnd>>] : c \in GenChunks, rnd \in Randoms }
  /\ evicted = NoVal
  /\ saving = [i \in SaveIds |-> NoSaving]
  /\ owed = NoVal
  /\ expect = NoVal
  /\ indexed = TRUE
  /\ failed = {}

\* generateChunk(cx, cz) up to its mesh: the volume goes on record
Generated ==
  /\ event.op = "chunk"
  /\ Ev("generateChunk",
        <<event.args[1], event.args[2],
          GenerateVolume(seed, event.args[1][1], event.args[1][2], event.args[2])>>)
  /\ UNCHANGED <<chunks, scene, chunksData, dirtyChunks, knownChunkKeys, loadingChunks, seed,
                 db, pending, calls>>

\* the generator alone
NextGen == Generated /\ KeepButEvent

SpecGen == InitGen /\ [][NextGen]_vars

\* the number of requests, the first of pending, that were outstanding when
\* deleteWorld last cleared the in-memory fields: requests are appended at the end
StaleCount == IF event.args = <<>> THEN 0 ELSE event.args[1]

\* the count once the request at j has completed
StaleLeft(j) == IF j <= StaleCount THEN StaleCount - 1 ELSE StaleCount

\* a completion of the request at j, of the given kind, told from a stale one
Completion(j, kind) ==
  Ev(IF j <= StaleCount THEN kind ELSE "step", <<StaleLeft(j), pending[j].key>>)

\* streaming, saves and deleteWorld called at any moment, with no store failure;
\* event tells the completions of the fetches and eviction writes that were issued
\* before deleteWorld cleared the in-memory fields
NextStale ==
  \/ \E p \in Positions, c \in BOOLEAN :
       Update(p, c) /\ Cap(MaxPending) /\ Ev("step", <<StaleCount>>) /\ KeepButEvent
  \/ \E id \in SaveIds :
       SaveWorld(id, "pd1") /\ Cap(MaxPending) /\ Ev("step", <<StaleCount>>) /\ KeepButEvent
  \/ \E j \in Slots, id \in SaveIds :
       /\ SaveMetaDone(j, id, TRUE) /\ Cap(MaxPending)
       /\ Ev("step", <<StaleLeft(j)>>) /\ KeepButEvent
  \/ \E j \in Slots, id \in SaveIds :
       SaveChunkDone(j, id, TRUE) /\ Ev("step", <<StaleLeft(j)>>) /\ KeepButEvent
  \/ \E j \in Slots : FetchDone(j, TRUE) /\ Completion(j, "staleFetch") /\ KeepButEvent
  \/ \E j \in Slots : EvictWriteDone(j, TRUE) /\ Completion(j, "staleWrite") /\ KeepButEvent
  \/ DeleteWorld /\ Cap(MaxPending) /\ Ev("step", <<StaleCount>>) /\ KeepButEvent
  \/ \E j \in Slots :
       DeleteInitDone(j, TRUE) /\ Ev("step", <<StaleLeft(j)>>) /\ KeepButEvent
  \/ \E j \in Slots, s \in Seeds :
       DeleteClearDone(j, TRUE, s) /\ Ev("deleted", <<Len(pending')>>) /\ KeepButEvent

SpecStale == Init /\ [][NextStale]_vars

\* the keys of the caches handed to checkMemory: at distances 0, 1, 1, 4 and 5 of
\* chunk (0,0), and 1, 0, 4, 5 and 10 of chunk (-1,0)
SelectKeys == {<<-1, 0>>, <<0, 0>>, <<1, 0>>, <<0, 2>>, <<2, 1>>}

\* the caches handed to checkMemory: one or two volumes more than the cap, in every
\* insertion order
SelectCaches ==
  UNION { { [i \in 1..n |-> [key |-> ks[i], val |-> GenerateData(0, ks[i][1], ks[i][2])]] :
              ks \in { f \in [1..n -> SelectKeys] :
                         \A i, j \in 1..n : i # j => f[i] # f[j] } } :
          n \in (CacheCap + 1)..(CacheCap + 2) }

\* a cache over the cap with any of its keys dirty and any of them meshed, the clean
\* ones stored, and the viewer position checkMemory is about to be called with
InitSelect ==
  /\ chunksData \in SelectCaches
  /\ dirtyChunks \in SUBSET MapKeys(chunksData)
  /\ \E m \in SUBSET MapKeys(chunksData) :
       chunks = [k \in m |-> generateChunkMesh(MapGet(chunksData, k), KeyX(k), KeyZ(k))]
  /\ scene = [mesh \in { chunks[k] : k \in DOMAIN chunks } |-> 1]
  /\ knownChunkKeys = MapKeys(chunksData) \ dirtyChunks
  /\ loadingChunks = {}
  /\ seed = 0
  /\ db = [EmptyDb EXCEPT !.chunks = [k \in knownChunkKeys |-> MapGet(chunksData, k)]]
  /\ pending = <<>>
  /\ calls = [i \in CallIds |-> Idle]
  /\ inventorySlots = [i \in 1..NumSlots |-> NoItem]
  /\ draggedItem = NoItem
  /\ isInventoryOpen = FALSE
  /\ event \in { [op |-> "cache", args |-> <<p>>] : p \in Positions }
  /\ evicted = NoVal
  /\ saving = [i \in SaveIds |-> NoSaving]
  /\ owed = NoVal
  /\ expect = NoVal
  /\ indexed = TRUE
  /\ failed = {}

\* this.checkMemory(playerPos)
CheckMemory ==
  /\ event.op = "cache"
  /\ Apply(checkMemory(World, event.args[1]))
  /\ Ev("checkMemory", event.args)
  /\ UNCHANGED <<db, calls>>

\* checkMemory alone, on each cache of SelectCaches
NextSelect == CheckMemory /\ KeepButEvent

SpecSelect == InitSelect /\ [][NextSelect]_vars

\* where the viewer stands while the inventory is used
Standing == { <<8, 8>> }

\* the items of the id in the slots and on the cursor
Total(id) ==
  LET RECURSIVE Sum(_)
      Sum(n) == IF n = 0 THEN 0
                ELSE Sum(n - 1) + (IF inventorySlots[n].id = id THEN inventorySlots[n].count ELSE 0)
  IN  Sum(NumSlots) + (IF draggedItem.id = id THEN draggedItem.count ELSE 0)

\* the inventory in the running game: the frames of animate with the item entities
\* they pick up, the clicks on slots, the E key, and the saves that closing starts
NextInventory ==
  \/ \E index \in 1..NumSlots :
       HandleSlotClick(index) /\ Ev("click", <<index>>) /\ KeepHistories
  \/ \E pd \in {"pd1"} :
       /\ ToggleInventory(pd) /\ Cap(MaxPending)
       /\ Ev(IF isInventoryOpen THEN "close" ELSE "open", <<>>) /\ KeepHistories
  \/ \E p \in Standing, c \in BOOLEAN, type \in {0} \cup ItemIds :
       /\ type # 0 => Total(type) < MaxCount
       /\ Animate(p, c, type) /\ Cap(MaxPending)
       /\ Ev("frame", <<type>>) /\ KeepHistories
  \/ \E j \in Slots, id \in SaveIds, ok \in BOOLEAN :
       SaveMetaDone(j, id, ok) /\ Cap(MaxPending) /\ Ev("step", <<>>) /\ KeepButEvent
  \/ \E j \in Slots, id \in SaveIds, ok \in BOOLEAN :
       SaveChunkDone(j, id, ok) /\ Ev("step", <<>>) /\ KeepButEvent

SpecInventory == Init /\ [][NextInventory]_vars

(* ------------------------------ properties ------------------------------ *)

mem == <<chunks, chunksData, dirtyChunks, knownChunkKeys, loadingChunks>>

InRange(y) == y >= 0 /\ y < chunkSize

KeyOf(x, z) == ChunkKey(ChunkCoord(x), ChunkCoord(z))

\* C7: setBlock on a chunk that is not cached, or with y outside [0, 16), leaves
\* the cache, the volumes, the dirty, known and in-flight sets and the meshes as
\* they were.
C7_SetBlockIgnored ==
  [][\A x \in SetXs, y \in SetYs, z \in SetZs, t \in SetTypes :
       (SetBlock(x, y, z, t) /\ (~isChunkLoaded(x, z) \/ ~InRange(y))) => UNCHANGED mem]_vars

\* setBlock was just called with y = -1 on a cached chunk, and with y = 1 it
\* would have written
C7_Witness ==
  /\ event.op = "setBlock"
  /\ event.args[2] = -1
  /\ isChunkLoaded(event.args[1], event.args[3])
  /\ getBlock(event.args[1], 1, event.args[3]) # event.args[4]

\* C8: setBlock(x, y, z, t) on a cached chunk with y in [0, 16) makes getBlock(x, y, z)
\* return t, puts the key in the dirty set under exactly one, rebuilt, mesh, and
\* leaves the volume, dirty flag and mesh of every other key unchanged.
C8_SetBlockFrame ==
  [][\A x \in SetXs, y \in SetYs, z \in SetZs, t \in SetTypes :
       (SetBlock(x, y, z, t) /\ isChunkLoaded(x, z) /\ InRange(y)) =>
         LET key == KeyOf(x, z)
         IN  /\ getBlock(x, y, z)' = t
             /\ key \in dirtyChunks'
             /\ DOMAIN chunks' = DOMAIN chunks \cup {key}
             /\ chunks'[key] = generateChunkMesh(MapGet(chunksData', key), KeyX(key), KeyZ(key))
             /\ MapKeys(chunksData') = MapKeys(chunksData)
             /\ \A k \in MapKeys(chunksData) \ {key} :
                  MapGet(chunksData', k) = MapGet(chunksData, k)
             /\ dirtyChunks' \ {key} = dirtyChunks \ {key}
             /\ \A k \in DOMAIN chunks \ {key} : chunks'[k] = chunks[k]]_vars

\* setBlock just wrote a cell of one cached chunk while another chunk is cached too
C8_Witness ==
  /\ event.op = "setBlock"
  /\ InRange(event.args[2])
  /\ isChunkLoaded(event.args[1], event.args[3])
  /\ getBlock(event.args[1], event.args[2], event.args[3]) = event.args[4]
  /\ Len(chunksData) > 1

\* C9: getBlock returns 0 and hasBlock returns false for y < 0, for y >= 16 and
\* for a chunk that is not cached.
C9_LookupOutside ==
  \A x \in GetXs, y \in SetYs, z \in SetZs :
    (~InRange(y) \/ ~isChunkLoaded(x, z)) => (getBlock(x, y, z) = 0 /\ ~hasBlock(x, y, z))

\* one chunk is cached with a solid cell above the probed y = -1, another is not
C9_Witness ==
  \E x \in GetXs, o \in GetXs, z \in SetZs :
    /\ isChunkLoaded(x, z)
    /\ ~isChunkLoaded(o, z)
    /\ hasBlock(x, 1, z)
    /\ getBlock(x, -1, z) = 0
    /\ getBlock(o, 1, z) = 0

\* C5: every key with a mesh handle has its volume cached.
C5_MeshHasVolume == DOMAIN chunks \subseteq MapKeys(chunksData)

\* a mesh is up next to a key that was evicted (known, neither cached nor meshed)
\* while a deleteWorld call is suspended
C5_Witness ==
  /\ DOMAIN chunks # {}
  /\ \E k \in knownChunkKeys : ~MapHas(chunksData, k) /\ k \notin DOMAIN chunks
  /\ calls[LifeId].op = "delete"

\* the fetches outstanding for a key
Fetches(key) == { j \in DOMAIN pending : pending[j].cont.kind = "fetch" /\ pending[j].key = key }

\* C6: at most one fetch is outstanding per key.
C6_OneFetchPerKey == \A j \in DOMAIN pending : Cardinality(Fetches(pending[j].key)) <= 1

\* C3: every cached key that is not in the dirty set has a record in the store
\* equal to its cached volume.
C3_CleanIsStored ==
  \A k \in MapKeys(chunksData) \ dirtyChunks :
    k \in DOMAIN db.chunks /\ db.chunks[k] = MapGet(chunksData, k)

\* C1: a key evicted by checkMemory that becomes cached again holds, in every cell,
\* the value it held at its eviction.
C1_EvictedComesBack ==
  [][\A k \in DOMAIN evicted :
       MapHas(chunksData', k) => MapGet(chunksData', k) = evicted[k].val]_vars

\* the eviction writes still outstanding for a key
EvictWrites(key) ==
  { j \in DOMAIN pending : pending[j].cont.kind = "evict" /\ pending[j].key = key }

\* C2: once the writes checkMemory issued have finished, a key that was dirty at its
\* eviction has a record in the store equal to its volume at the eviction.
C2_EvictedIsStored ==
  \A k \in DOMAIN evicted :
    (evicted[k].dirty /\ EvictWrites(k) = {}) =>
      (k \in DOMAIN db.chunks /\ db.chunks[k] = evicted[k].val)

\* C4: after setBlock on a cached chunk and a saveWorld called afterwards that
\* resolved, an instance that has run loadWorld and gets the chunk cached by update
\* finds in it the volume setBlock left.
C4_RoundTrip ==
  [][indexed =>
       \A k \in DOMAIN expect :
         (~MapHas(chunksData, k) /\ MapHas(chunksData', k)) =>
           MapGet(chunksData', k) = expect[k]]_vars

\* the saveWorld call id resolved in the last step
JustResolved(id) == event.op = "resolved" /\ event.args[1] = id

JustRejected(id) == event.op = "rejected" /\ event.args[1] = id

Outstanding(id) == { j \in DOMAIN pending : pending[j].cont = CallCont(id) }

\* the request r is outstanding after the step, with nobody waiting for it
StillIssued(r) ==
  \E n \in DOMAIN pending' :
    /\ pending'[n].op = r.op
    /\ pending'[n].ns = r.ns
    /\ pending'[n].key = r.key
    /\ pending'[n].val = r.val
    /\ pending'[n].cont = NoCont

\* C12: when a chunk write of saveWorld fails, every chunk write of the call the
\* store has not completed is outstanding as it was issued, one per key dirty at the
\* issue, and the step changes nothing in memory or in the store; when such a write
\* completes later, the key's record is the volume written.
C12_FailureIsolated ==
  [][/\ \A id \in SaveIds :
          (event'.op = "rejected" /\ event'.args[1] = id /\ calls[id].pc = "chunks") =>
            /\ Cardinality(Outstanding(id)) = calls[id].left
            /\ Cardinality({ pending[j].key : j \in Outstanding(id) }) = calls[id].left
            /\ { pending[j].key : j \in Outstanding(id) } \subseteq DOMAIN saving[id].wrote
            /\ Len(pending') = Len(pending) - 1
            /\ \E f \in Outstanding(id) :
                 \A j \in Outstanding(id) \ {f} :
                   /\ pending[j].val = saving[id].wrote[pending[j].key]
                   /\ StillIssued(pending[j])
            /\ UNCHANGED <<mem, seed, db>>
     /\ event'.op = "written" =>
          /\ event'.args[1] \in DOMAIN db'.chunks
          /\ db'.chunks[event'.args[1]] = event'.args[2]]_vars

\* after a chunk write of saveWorld failed, the write of another key has completed
\* and the key's record is the volume written
C12_Witness ==
  /\ event.op = "written"
  /\ calls[1].op = "idle"
  /\ db.chunks[event.args[1]] = event.args[2]
  /\ \E k \in dirtyChunks : k # event.args[1] /\ k \notin DOMAIN db.chunks

\* C16: update issues no get for a key whose fetch has failed.
C16_NoRefetch == [][\A k \in failed : k \in loadingChunks' => k \in loadingChunks]_vars

\* the fetch that ended in the last step
JustFetched(outcome, key) == event.op = outcome /\ event.args[1] = key

\* C17: a fetch that fails removes its key from the in-flight set and changes
\* nothing else: no volume is cached, no chunk generated, no mesh built.
C17_FailedFetch ==
  [][event'.op = "fetchFailed" =>
       /\ loadingChunks' = loadingChunks \ {event'.args[1]}
       /\ ~MapHas(chunksData', event'.args[1])
       /\ UNCHANGED <<chunks, chunksData, dirtyChunks, knownChunkKeys, seed, db>>]_vars

\* the fetch of a known key in the viewer's chunk has just failed
C17_Witness ==
  \E k \in knownChunkKeys :
    /\ JustFetched("fetchFailed", k)
    /\ ~MapHas(chunksData, k)
    /\ k \notin loadingChunks
    /\ k \in DOMAIN db.chunks

\* C18: a fetch that resolves with no data generates the chunk: the key is cached
\* with the generated volume, dirty and meshed, it leaves the in-flight set, and no
\* suspended call is rejected.
C18_EmptyFetchGenerates ==
  [][event'.op = "fetchEmpty" =>
       LET key == event'.args[1]
       IN  /\ MapHas(chunksData', key)
           /\ MapGet(chunksData', key) = GenerateData(seed, KeyX(key), KeyZ(key))
           /\ key \in dirtyChunks'
           /\ key \in DOMAIN chunks'
           /\ key \notin loadingChunks'
           /\ calls' = calls]_vars

\* the fetch of a known key has just resolved with no record in the store, and the
\* key is cached, dirty and meshed
C18_Witness ==
  \E k \in knownChunkKeys :
    /\ JustFetched("fetchEmpty", k)
    /\ k \notin DOMAIN db.chunks
    /\ MapHas(chunksData, k)
    /\ k \in dirtyChunks
    /\ k \in DOMAIN chunks

(* C13: when deleteWorld resolves, the store holds no chunk volume and no player
   record, the cache, the dirty set, the known keys, the keys in flight and the
   meshes are all empty, and the seed is the newly drawn one. *)
C13_DeleteWipes ==
  event.op = "deleted" =>
    /\ db = EmptyDb
    /\ chunks = NoVal
    /\ chunksData = <<>>
    /\ dirtyChunks = {}
    /\ knownChunkKeys = {}
    /\ loadingChunks = {}
    /\ seed = event.args[3]
    /\ calls[LifeId].op = "idle"

\* deleteWorld resolved while a fetch that update issued during the call is
\* still outstanding
C13_Witness ==
  /\ event.op = "deleted"
  /\ \E j \in DOMAIN pending : pending[j].cont.kind = "fetch"

(* C14: when loadWorld resolves, every key of a stored chunk volume is a known
   key; the seed is the stored one if a player record is stored and is unchanged
   if none is; the result is the stored player data, or empty if none is stored. *)
C14_LoadRestores ==
  event.op = "loaded" =>
    /\ DOMAIN db.chunks \subseteq knownChunkKeys
    /\ seed = (IF db.player.present THEN db.player.seed ELSE event.args[3])
    /\ event.args[4] = (IF db.player.present THEN db.player.data ELSE "")
    /\ calls[LifeId].op = "idle"

\* loadWorld resolved in a fresh instance whose seed was not the stored one, over
\* a store with a chunk volume
C14_Witness ==
  /\ event.op = "loaded"
  /\ db.player.present
  /\ db.player.seed # event.args[3]
  /\ event.args[4] = "pd1"
  /\ DOMAIN db.chunks # {}
  /\ chunksData = <<>>

\* the outstanding requests of one kind of store operation
Requests(q, op) == { n \in DOMAIN q : q[n].op = op }

(* C15: when the store fails a request that loadWorld, saveWorld or deleteWorld
   awaits, the call ends there: nobody waits for a request any more on its account,
   no request is issued in place of the failed one, and the memory, the seed and
   the store are as they were; so for a failed clear of deleteWorld. *)
C15_FailureRejects ==
  [][event'.op = "failed" =>
       LET id == event'.args[1]
           op == event'.args[2]
       IN  /\ calls[id].op \in {"load", "save", "delete"}
           /\ calls'[id] = Idle
           /\ \A n \in DOMAIN pending' : pending'[n].cont # CallCont(id)
           /\ Len(pending') = Len(pending) - 1
           /\ Cardinality(Requests(pending', op)) = Cardinality(Requests(pending, op)) - 1
           /\ UNCHANGED <<mem, seed, db>>]_vars

\* the store failed the clear of deleteWorld with volumes cached, keys dirty and
\* known and meshes in the scene
C15_Witness ==
  /\ event.op = "failed"
  /\ event.args[2] = "clear"
  /\ calls[LifeId].op = "idle"
  /\ chunksData # <<>>
  /\ chunks # NoVal
  /\ dirtyChunks # {}
  /\ knownChunkKeys # {}

\* update is called at the position p of the call before it, with a volume and a
\* mesh for every chunk of the active set, and with no eviction to run
Stable(p) ==
  /\ LastPos = <<p>>
  /\ event'.args = <<p>>
  /\ event'.op \in {"update", "cleanup"}
  /\ ActiveChunks(p) \subseteq DOMAIN chunks
  /\ ActiveChunks(p) \subseteq MapKeys(chunksData)
  /\ (event'.op = "cleanup" => Len(chunksData) <= CacheCap)

(* C19: a call of update at the position of the call before it, when every chunk of
   the active set has a volume and a mesh and the cache is within the eviction cap,
   issues no fetch, generates no chunk, and adds or removes no mesh. *)
C19_UpdateIdempotent ==
  [][\A p \in Positions :
       Stable(p) =>
         /\ Len(pending') = Len(pending)
         /\ loadingChunks' = loadingChunks
         /\ MapKeys(chunksData') = MapKeys(chunksData)
         /\ dirtyChunks' = dirtyChunks
         /\ DOMAIN chunks' = DOMAIN chunks]_vars

\* the cell next to cell i on the given side, or -1 outside the chunk
NextTo(i, side) ==
  LET x == IndexX(i) + SideOffset(side)[1]
      y == IndexY(i) + SideOffset(side)[2]
      z == IndexZ(i) + SideOffset(side)[3]
  IN  IF x \in 0..(chunkSize - 1) /\ y \in 0..(chunkSize - 1) /\ z \in 0..(chunkSize - 1)
      THEN getBlockIndex(x, y, z) ELSE -1

\* the quad of cell i on the given side
QuadOf(i, side) == <<IndexX(i), IndexY(i), IndexZ(i), side>>

\* the pairs <<i, side>> of the volume whose cell i and the cell next to it on
\* that side hold the same block type
SamePairs(data) ==
  { c \in (DOMAIN data) \X Sides :
      NextTo(c[1], c[2]) \in DOMAIN data /\ data[NextTo(c[1], c[2])] = data[c[1]] }

\* the geometry of a volume with one voxel
SingleVoxel(data, g) ==
  Cardinality(DOMAIN data) = 1 =>
    /\ Cardinality(g.quads) = 6
    /\ g.vertices = 24
    /\ g.triangles = 12

(* C20: the mesh of a volume with a single voxel has 6 quads, 24 vertices and 12
   triangles; in the mesh of a volume with two adjacent voxels of the same block
   type, whatever the type, neither voxel has a quad on the side of the other, and
   the mesh has 10 quads. *)
C20_FaceCounts ==
  event.op = "generateChunkMesh" =>
    LET data == event.args[1]
        g == event.args[2]
    IN  /\ SingleVoxel(data, g)
        /\ \A c \in SamePairs(data) : QuadOf(c[1], c[2]) \notin g.quads
        /\ SamePairs(data) # {} => Cardinality(g.quads) = 10

(* C20, amended: as above for every block type but LEAVES; two adjacent LEAVES
   voxels have each a quad on the side of the other, and their mesh has 12 quads. *)
C20_FaceCountsOpaque ==
  event.op = "generateChunkMesh" =>
    LET data == event.args[1]
        g == event.args[2]
    IN  /\ SingleVoxel(data, g)
        /\ \A c \in SamePairs(data) :
             (QuadOf(c[1], c[2]) \in g.quads) <=> (data[c[1]] = LEAVES)
        /\ \A c \in SamePairs(data) :
             Cardinality(g.quads) = (IF data[c[1]] = LEAVES THEN 12 ELSE 10)

\* the mesh of two adjacent LEAVES voxels, one of them at a face of the chunk
C20_Witness ==
  /\ event.op = "generateChunkMesh"
  /\ SamePairs(event.args[1]) # {}
  /\ \E i \in DOMAIN event.args[1] : event.args[1][i] = LEAVES /\ IndexX(i) = 0
  /\ Cardinality(event.args[2].quads) = 12

\* the columns of a chunk
Columns == (0..(chunkSize - 1)) \X (0..(chunkSize - 1))

\* the surface height the height pass computes for column c of chunk k
HeightOf(k, c) == TerrainHeight(seed, k[1] * chunkSize + c[1], k[2] * chunkSize + c[2])

\* a column where a tree is drawn lies within two cells of column c
NearTree(rnd, c) ==
  \E t \in rnd.trees : Abs(t[1] - c[1]) <= 2 /\ Abs(t[2] - c[2]) <= 2

C22_SaveClearsWritten ==
  [][\A id \in SaveIds :
       (event'.op = "resolved" /\ event'.args[1] = id) =>
         \A k \in dirtyChunks :
           (\/ k \notin DOMAIN saving[id].wrote
            \/ (MapHas(chunksData, k) /\ MapGet(chunksData, k) # saving[id].wrote[k]))
             => k \in dirtyChunks']_vars

\* the step issues a write of the volume v for key k on behalf of checkMemory
EvictionWrites(k, v) ==
  \E j \in DOMAIN pending' \ DOMAIN pending :
    /\ pending'[j].cont.kind = "evict"
    /\ pending'[j].op = "set"
    /\ pending'[j].key = k
    /\ pending'[j].val = v

(* C23: whenever checkMemory drops a volume from the cache, the store holds a record
   equal to the volume or the same step issues a write of the volume. *)
C23_EvictedHasCopy ==
  [][\A k \in DOMAIN evicted' \ DOMAIN evicted :
       \/ k \in DOMAIN db'.chunks /\ db'.chunks[k] = evicted'[k].val
       \/ EvictionWrites(k, evicted'[k].val)]_vars

(* C24: when checkMemory evicts a dirty key, the volume and the mesh are dropped,
   and for as long as the write of the volume has not completed the key is still
   dirty and is a known key only if it was one before. *)
C24_PersistThenClear ==
  [][\A k \in DOMAIN evicted' \ DOMAIN evicted :
       /\ ~MapHas(chunksData', k)
       /\ k \notin DOMAIN chunks'
       /\ (evicted'[k].dirty /\ EvictionWrites(k, evicted'[k].val)) =>
            /\ k \in dirtyChunks'
            /\ k \in knownChunkKeys' => k \in knownChunkKeys]_vars

(* C25: every known key has a record in the store's chunks namespace. *)
C25_KnownIsStored == knownChunkKeys \subseteq DOMAIN db.chunks

(* C26: no key is at once in the in-flight set and in the cache, and no key is in
   the cache while a fetch for it is outstanding: checkMemory, which evicts cached
   keys only, never evicts a key that is being fetched. *)
C26_LoadingNotCached ==
  /\ loadingChunks \cap MapKeys(chunksData) = {}
  /\ \A j \in DOMAIN pending :
       pending[j].cont.kind = "fetch" => ~MapHas(chunksData, pending[j].key)

\* the fetches for key k that the step issues
NewFetches(k) ==
  { j \in DOMAIN pending' \ DOMAIN pending :
      pending'[j].cont.kind = "fetch" /\ pending'[j].key = k /\ pending'[j].op = "get" }

(* C27: when update returns, an active key that had no cached volume and was not a
   known key is cached with the generated volume, dirty, meshed and still not known,
   and no fetch was issued for it; one that was known and not in flight has one
   fetch issued, is in the in-flight set, and has neither volume nor mesh. *)
C27_Dispatch ==
  [][\A p \in Positions :
       (event'.op \in {"update", "cleanup"} /\ event'.args = <<p>>) =>
         \A k \in ActiveChunks(p) :
           ~MapHas(chunksData, k) =>
             IF k \notin knownChunkKeys
             THEN /\ MapHas(chunksData', k)
                  /\ MapGet(chunksData', k) = GenerateData(seed, KeyX(k), KeyZ(k))
                  /\ k \in dirtyChunks'
                  /\ k \in DOMAIN chunks'
                  /\ k \notin knownChunkKeys'
                  /\ NewFetches(k) = {}
                  /\ k \in loadingChunks' <=> k \in loadingChunks
             ELSE /\ ~MapHas(chunksData', k)
                  /\ k \notin DOMAIN chunks'
                  /\ k \notin dirtyChunks'
                  /\ k \in loadingChunks'
                  /\ Cardinality(NewFetches(k)) = (IF k \in loadingChunks THEN 0 ELSE 1)]_vars

\* update has just issued the fetch of a known key of its active set
C27_Witness ==
  /\ event.op \in {"update", "cleanup"}
  /\ \E k \in ActiveChunks(event.args[1]) :
       /\ k \in knownChunkKeys
       /\ k \in loadingChunks
       /\ ~MapHas(chunksData, k)
       /\ pending # <<>>
       /\ pending[Len(pending)].cont.kind = "fetch"
       /\ pending[Len(pending)].key = k

(* C28: when a fetch resolves with data, the key is cached with the volume read
   from the store and has a mesh, the key has left the in-flight set, and no key is
   marked dirty; so also when the key is no longer in the active set. *)
C28_FetchApplied ==
  [][event'.op = "fetched" =>
       LET k == event'.args[2]
       IN  /\ k \in DOMAIN db.chunks
           /\ MapHas(chunksData', k)
           /\ MapGet(chunksData', k) = db.chunks[k]
           /\ k \in DOMAIN chunks'
           /\ loadingChunks' = loadingChunks \ {k}
           /\ dirtyChunks' = dirtyChunks]_vars

\* a fetch has resolved with data for a key that left the active set while it was
\* outstanding
C28_Witness ==
  /\ event.op = "fetched"
  /\ event.args[2] \notin ActiveChunks(event.args[1])
  /\ MapHas(chunksData, event.args[2])
  /\ event.args[2] \notin dirtyChunks
  /\ event.args[2] \notin loadingChunks

(* C29: after update(p) has run, every key of the active set of p is cached and
   has a mesh, or is in the in-flight set. *)
C29_ActiveCovered ==
  [][event'.op \in {"update", "cleanup"} =>
       \A k \in ActiveChunks(event'.args[1]) :
         \/ MapHas(chunksData', k) /\ k \in DOMAIN chunks'
         \/ k \in loadingChunks']_vars

\* update has just run and left an active key in flight, with neither volume nor mesh
C29_Witness ==
  /\ event.op \in {"update", "cleanup"}
  /\ \E k \in ActiveChunks(event.args[1]) :
       /\ k \in loadingChunks
       /\ ~MapHas(chunksData, k)
       /\ k \notin DOMAIN chunks

(* C30: every key with a mesh is in the active set of the most recent call of
   update. *)
C30_MeshOnlyActive ==
  LastPos # <<>> => DOMAIN chunks \subseteq ActiveChunks(LastPos[1])

\* the in-memory fields as update(p) leaves them before its memory cleanup
BeforeCleanup(p) == updateGrid(World, p)

(* C31: a key leaves the RAM cache only in a step of checkMemory that found more
   than the cap of volumes cached, or when deleteWorld clears the cache; a call of
   update without cleanup leaves every cached volume and its dirty flag as they
   were, the chunks whose mesh it unloads included; and a cleanup that finds at
   most the cap of volumes changes nothing. *)
C31_VolumeLeaves ==
  [][/\ ~(MapKeys(chunksData) \subseteq MapKeys(chunksData')) =>
          \/ event'.op = "deleted"
          \/ /\ event'.op = "cleanup"
             /\ Len(BeforeCleanup(event'.args[1]).chunksData) > CacheCap
     /\ event'.op = "update" =>
          \A k \in MapKeys(chunksData) :
             /\ MapHas(chunksData', k)
             /\ MapGet(chunksData', k) = MapGet(chunksData, k)
             /\ (k \in dirtyChunks') = (k \in dirtyChunks)
     /\ (event'.op = "cleanup"
           /\ Len(BeforeCleanup(event'.args[1]).chunksData) <= CacheCap) =>
          LET w == BeforeCleanup(event'.args[1])
          IN  /\ chunksData' = w.chunksData
              /\ dirtyChunks' = w.dirtyChunks
              /\ DOMAIN chunks' = DOMAIN w.chunks
              /\ knownChunkKeys' = knownChunkKeys
              /\ Len(pending') = Len(w.pending)]_vars

\* update has just unloaded the mesh of a chunk that is cached and dirty, and the
\* cleanup ran and found no more than the cap of volumes
C31_Witness ==
  /\ event.op = "cleanup"
  /\ Len(chunksData) <= CacheCap
  /\ \E k \in dirtyChunks : MapHas(chunksData, k) /\ k \notin DOMAIN chunks

\* the keys a step removes from the RAM cache
Dropped == MapKeys(chunksData) \ MapKeys(chunksData')

(* C32: a call of checkMemory that finds more than the cap of volumes evicts
   exactly one batch of keys; no evicted key is nearer to the viewer's chunk, in
   squared planar distance, than a key that stays; and every key that stays keeps
   its volume, its dirty flag and its mesh handle. *)
C32_EvictsFarthest ==
  [][event'.op = "checkMemory" =>
       LET cx == ChunkCoord(event'.args[1][1])
           cz == ChunkCoord(event'.args[1][2])
       IN  /\ Len(chunksData) > CacheCap
           /\ MapKeys(chunksData') \subseteq MapKeys(chunksData)
           /\ Cardinality(Dropped) = EvictBatch
           /\ \A g \in Dropped, k \in MapKeys(chunksData') :
                 Dist(g, cx, cz) >= Dist(k, cx, cz)
           /\ \A k \in MapKeys(chunksData') :
                 /\ MapGet(chunksData', k) = MapGet(chunksData, k)
                 /\ (k \in dirtyChunks') = (k \in dirtyChunks)
                 /\ (k \in DOMAIN chunks') = (k \in DOMAIN chunks)
                 /\ k \in DOMAIN chunks => chunks'[k] = chunks[k]]_vars

\* checkMemory has run on a cache whose first-inserted key is the viewer's chunk and
\* has left a key that is dirty and meshed and a key that is neither
C32_Witness ==
  /\ event.op = "checkMemory"
  /\ Len(chunksData) = 2
  /\ chunksData[1].key = <<ChunkCoord(event.args[1][1]), ChunkCoord(event.args[1][2])>>
  /\ \E k \in MapKeys(chunksData) : k \in dirtyChunks /\ k \in DOMAIN chunks
  /\ \E k \in MapKeys(chunksData) : k \notin dirtyChunks /\ k \notin DOMAIN chunks
  /\ Len(pending) = 1

\* the pairs <<i, side>> of the volume whose cell i is looked at from an open side:
\* the cell next to it lies outside the chunk, or holds AIR or LEAVES
OpenPairs(data) ==
  { c \in (DOMAIN data) \X Sides :
      \/ NextTo(c[1], c[2]) = -1
      \/ NextTo(c[1], c[2]) \notin DOMAIN data
      \/ data[NextTo(c[1], c[2])] = LEAVES }

(* C33: the quads of the mesh of a volume are those of the pairs (non-empty voxel,
   side) whose neighbour on that side is outside the chunk or holds AIR or LEAVES,
   one quad of four vertices each and no other; in particular a voxel at a face of
   the chunk has its quad on the outward side. *)
C33_EmissionRule ==
  event.op = "generateChunkMesh" =>
    LET data == event.args[1]
        g == event.args[2]
    IN  /\ g.quads = { QuadOf(c[1], c[2]) : c \in OpenPairs(data) }
        /\ g.vertices = 4 * Cardinality(OpenPairs(data))
        /\ \A c \in (DOMAIN data) \X Sides :
              NextTo(c[1], c[2]) = -1 => QuadOf(c[1], c[2]) \in g.quads

\* the mesh of a STONE voxel at a face of the chunk next to a LEAVES voxel: the
\* stone has its six quads, the foliage has none toward the stone
C33_Witness ==
  /\ event.op = "generateChunkMesh"
  /\ Cardinality(event.args[2].quads) = 11
  /\ \E i \in DOMAIN event.args[1], side \in Sides :
       /\ event.args[1][i] = STONE
       /\ NextTo(i, side) = -1
       /\ \E other \in Sides :
            /\ NextTo(i, other) \in DOMAIN event.args[1]
            /\ event.args[1][NextTo(i, other)] = LEAVES

(* C34: every dirty key has its volume in the RAM cache. *)
C34_DirtyIsCached == dirtyChunks \subseteq MapKeys(chunksData)

\* checkMemory has just evicted a dirty key, whose write is outstanding, and a
\* dirty key is left
C34_Witness ==
  /\ event.op = "cleanup"
  /\ dirtyChunks # {}
  /\ \E j \in DOMAIN pending :
       pending[j].cont.kind = "evict" /\ ~MapHas(chunksData, pending[j].key)

\* a fetch of key k that was issued after deleteWorld cleared the in-memory fields
\* is outstanding in the state a step leads to
FreshFetch(k) ==
  \E j \in DOMAIN pending' :
    /\ j > event'.args[1]
    /\ pending'[j].cont.kind = "fetch"
    /\ pending'[j].key = k

(* C35: the completion of an eviction write or of a fetch that was issued before
   deleteWorld cleared the in-memory fields adds no key to the known keys, and the
   completion of such a fetch leaves the in-flight mark of its key if a fetch issued
   after the deletion is outstanding for it. *)
C35_NoStaleLeak ==
  [][/\ event'.op \in {"staleWrite", "staleFetch"} =>
          knownChunkKeys' \subseteq knownChunkKeys
     /\ (event'.op = "staleFetch" /\ FreshFetch(event'.args[2])) =>
          event'.args[2] \in loadingChunks']_vars

(* C36: the mesh handle of every key was built from the volume the RAM cache
   holds for that key. *)
C36_MeshFromVolume ==
  \A k \in DOMAIN chunks :
    /\ MapHas(chunksData, k)
    /\ chunks[k].from = MapGet(chunksData, k)

(* C37: the chunk meshes in the scene are the mesh handles of the chunks map, each
   of them there once; so a mesh that is replaced, unloaded, evicted or deleted has
   left the scene when its handle is dropped or overwritten. *)
C37_NoOrphanMesh ==
  scene = [mesh \in { chunks[k] : k \in DOMAIN chunks } |-> 1]

\* setBlock has just replaced the mesh of an edited chunk, and two chunks have a mesh
C37_Witness ==
  /\ event.op = "setBlock"
  /\ Cardinality(DOMAIN chunks) = 2
  /\ \E k \in DOMAIN chunks : \E i \in DOMAIN chunks[k].from : chunks[k].from[i] = WOOD
  /\ Cardinality(DOMAIN scene) = 2

\* the number of chunk keys at squared planar distance d or less of a chunk
NearKeys(d) ==
  Cardinality({ c \in (-d..d) \X (-d..d) : c[1] * c[1] + c[2] * c[2] <= d })

\* with the program's cap, batch and radii: of more than MemoryCap cached keys, at
\* least a batch are farther from the viewer's chunk than a corner of the active grid
BatchIsOutside ==
  \A r \in Radii : (MemoryCap + 1) - NearKeys(2 * r * r) >= MemoryBatch

(* C38: the cleanup of update(p) evicts no key of the active set of p: every active
   key that is cached and meshed when checkMemory is called is cached with the same
   volume and the same mesh when update returns; with the cap, batch and radii of
   the program a batch never reaches the active grid. *)
C38_ActiveNotEvicted ==
  [][/\ BatchIsOutside
     /\ event'.op = "cleanup" =>
          LET w == BeforeCleanup(event'.args[1])
          IN  \A k \in ActiveChunks(event'.args[1]) :
                (MapHas(w.chunksData, k) /\ k \in DOMAIN w.chunks) =>
                  /\ MapHas(chunksData', k)
                  /\ MapGet(chunksData', k) = MapGet(w.chunksData, k)
                  /\ k \in DOMAIN chunks'
                  /\ chunks'[k] = w.chunks[k]]_vars

\* the cleanup has just evicted a dirty chunk and the cache is at its cap, with
\* every chunk of the active set cached and meshed
C38_Witness ==
  /\ event.op = "cleanup"
  /\ Len(chunksData) = CacheCap
  /\ \E j \in DOMAIN pending : pending[j].cont.kind = "evict"
  /\ \A k \in ActiveChunks(event.args[1]) : MapHas(chunksData, k) /\ k \in DOMAIN chunks

\* the most recent call of update was at p
ViewerAt(p) == LastPos = <<p>>

\* every key of the active set of p is cached and meshed, and isChunkLoaded at p
\* answers true
Streamed(p) ==
  /\ \A k \in ActiveChunks(p) : MapHas(chunksData, k) /\ k \in DOMAIN chunks
  /\ isChunkLoaded(p[1], p[2])

(* C39: if from some moment on update is called at one position only, then from
   some moment on every key of its active set is cached and meshed and
   isChunkLoaded at that position answers true. *)
C39_StreamingLive ==
  \A p \in Positions : <>[]ViewerAt(p) => <>[](ViewerAt(p) /\ Streamed(p))

\* the viewer's chunk has just been fetched from the store, after an eviction
C39_Witness ==
  /\ event.op = "fetched"
  /\ event.args[2] = ChunkKey(ChunkCoord(event.args[1][1]), ChunkCoord(event.args[1][2]))
  /\ Streamed(event.args[1])

(* C40: a click on a slot and the opening or closing of the inventory leave, for
   every item id, the count over the slots plus the dragged stack as it was; a
   stack on the cursor when the inventory closes is back in a slot afterwards. *)
C40_ItemsConserved ==
  [][event'.op \in {"click", "open", "close"}
       => /\ \A id \in ItemIds : Total(id)' = Total(id)
          /\ event'.op = "close" => draggedItem' = NoItem]_vars

====
